---------------------------- MODULE Spec2Model ----------------------------
(***************************************************************************)
(* PO assignment workflow (app/services/assignment_service.py).            *)
(*                                                                         *)
(* The committed "assignments" table, the wall clock's date, and the       *)
(* requests served by AssignmentService; the accounts and sessions of      *)
(* AuthService.  Eight specifications:                                     *)
(*   Spec      one request at a time, every handler run to completion;     *)
(*   SpecConc  two database sessions whose queries and commits interleave  *)
(*             (PostgreSQL's default READ COMMITTED: every query reads     *)
(*             the rows committed so far);                                 *)
(*   SpecGen   single creations on the tables earlier creations left;      *)
(*   SpecGroup bulk creations of wide batches, step by step in one session;*)
(*   SpecEdit  a DRAFT and the updates of its fields;                      *)
(*   SpecRead  the requests of Spec and the reads of assignees;            *)
(*   SpecLogin login attempts with right and wrong passwords;              *)
(*   SpecAuth  logins, logouts, token refreshes and password resets.       *)
(***************************************************************************)
EXTENDS Integers, Sequences, FiniteSets, TLC

VARIABLES
    assignments,   \* the committed rows of table "assignments", in insertion order
    today,         \* the date datetime.now(timezone.utc) falls on
    last,          \* the request served last and its response (Spec, SpecGen)
    sess,          \* the database sessions of the requests in progress (SpecConc)
    internal_users, \* the committed rows of table "internal_users", by user (SpecAuth)
    user_sessions, \* the committed rows of table "user_sessions", in insertion order
    clock,         \* the second datetime.now(timezone.utc) falls in
    revoked        \* history: the access tokens logged out or reset since their
                   \* user's last login

authVars == <<internal_users, user_sessions, clock, revoked>>

vars == <<assignments, today, last, sess, authVars>>

----------------------------------------------------------------------------
(* Bounds of the model *)

MaxRows == 2       \* rows the table may hold in Spec
MaxConcRows == 2   \* rows the table may hold in SpecConc
MaxDay == 2        \* dates the clock runs through
MaxBatch == 2      \* selections in one bulk request
MaxGroupLen == 4   \* selections in one bulk request of SpecGroup

(* Program constants *)

PadWidth == 3      \* f"{new_seq:03d}"
Base == 10         \* decimal digits of the sequence number

----------------------------------------------------------------------------
(* Optional values: None is <<>>, a value v is <<v>> *)

None == <<>>

Some(v) == <<v>>

IsNone(o) == o = <<>>

----------------------------------------------------------------------------
(* Users (table internal_users; never written by AssignmentService) *)

UserRolePD == "PD"

UserRole == [ADMIN |-> "ADMIN", PROJECT_MANAGER |-> "PROJECT_MANAGER",
             SBC |-> "SBC", PD |-> UserRolePD]

InternalUsers == [pm1 |-> UserRole.PROJECT_MANAGER, pm2 |-> UserRole.PROJECT_MANAGER,
                  pd1 |-> UserRole.PD, admin1 |-> UserRole.ADMIN,
                  sbc1 |-> UserRole.SBC, sbc2 |-> UserRole.SBC]

UserIds == DOMAIN InternalUsers

\* an id that is no row of internal_users
GhostId == "ghost"

\* db.query(InternalUser).filter(InternalUser.id == id).first(): the role, or None
RoleOfUser(id) == IF id \in UserIds THEN Some(InternalUsers[id]) ELSE None

\* .filter(InternalUser.id == id, InternalUser.role == UserRole.SBC).first() is not None
SbcFound(id) == RoleOfUser(id) = Some(UserRole.SBC)

----------------------------------------------------------------------------
(* AssignmentStatus *)

DRAFT == "DRAFT"

PENDING_PD_APPROVAL == "PENDING_PD_APPROVAL"

PENDING_ADMIN_APPROVAL == "PENDING_ADMIN_APPROVAL"

APPROVED == "APPROVED"

REJECTED == "REJECTED"

CANCELLED == "CANCELLED"

AssignmentStatus == {DRAFT, PENDING_PD_APPROVAL, PENDING_ADMIN_APPROVAL,
                     APPROVED, REJECTED, CANCELLED}

----------------------------------------------------------------------------
(* internal_po_id: "PO-SIB-<YYYYMMDD>-<seq>", kept as the date and the     *)
(* characters of <seq> (decimal digits, most significant first)            *)

RECURSIVE Digits(_)
\* str(n) for n >= 0
Digits(n) == IF n < Base THEN <<n>> ELSE Append(Digits(n \div Base), n % Base)

\* f"{n:03d}": zero-padded to at least PadWidth characters
\* the sequence number rendered without padding
FormatUnpadded(n) == Digits(n)

Format03d(n) ==
    LET d == Digits(n)
        pad == IF Len(d) >= PadWidth THEN 0 ELSE PadWidth - Len(d)
    IN  [i \in 1..(pad + Len(d)) |-> IF i <= pad THEN 0 ELSE d[i - pad]]

RECURSIVE ParseInt(_)
\* int(s) of a string of digits
ParseInt(s) == IF s = <<>> THEN 0
               ELSE ParseInt(SubSeq(s, 1, Len(s) - 1)) * Base + s[Len(s)]

RECURSIVE StrLess(_, _)
\* a < b as strings: character by character, a proper prefix first
StrLess(a, b) ==
    IF a = <<>> THEN b # <<>>
    ELSE IF b = <<>> THEN FALSE
    ELSE IF Head(a) # Head(b) THEN Head(a) < Head(b)
    ELSE StrLess(Tail(a), Tail(b))

\* f"{prefix}{new_seq:03d}" with prefix = f"PO-SIB-{date_str}-"
InternalPoId(date, n) == [date |-> date, seq |-> Format03d(n)]

\* Assignment.internal_po_id.like(f"{prefix}%")
HasPrefix(id, date) == id.date = date

----------------------------------------------------------------------------
(* Rows of table "assignments" (app/models/assignment.py) *)

\* Assignment(...) as the two create methods build it: the columns they do not
\* name are None until the INSERT (created_at and updated_at get now() there)
NewAssignment(internal_po_id, pm, sbc, po_number, line_numbers, notes) ==
    [internal_po_id |-> internal_po_id,
     created_by_pm_id |-> pm,
     assigned_to_sbc_id |-> sbc,
     pd_approved_by_id |-> None,
     admin_approved_by_id |-> None,
     rejected_by_id |-> None,
     external_po_number |-> po_number,
     external_po_line_numbers |-> line_numbers,
     status |-> DRAFT,
     assignment_notes |-> notes,
     pd_remarks |-> None,
     admin_remarks |-> None,
     rejection_reason |-> None,
     created_at |-> None,
     updated_at |-> None,
     submitted_at |-> None,
     pd_approved_at |-> None,
     admin_approved_at |-> None,
     rejected_at |-> None]

\* set(line_numbers)
LineSet(line_numbers) == {line_numbers[i] : i \in DOMAIN line_numbers}

----------------------------------------------------------------------------
(* _group_lines_by_po_number: the dict as the sequence of its items, in    *)
(* insertion order (a PO number enters at its first appearance)            *)

\* grouped[line.po_number] = [line.po_line] in place of the append
RECURSIVE GroupLinesOverwriting(_)
GroupLinesOverwriting(po_lines) ==
    IF po_lines = <<>> THEN <<>>
    ELSE LET n == Len(po_lines)
             grouped == GroupLinesOverwriting(SubSeq(po_lines, 1, n - 1))
             line == po_lines[n]
             at == {i \in DOMAIN grouped : grouped[i].po_number = line.po_number}
         IN  IF at = {}
             THEN Append(grouped, [po_number |-> line.po_number,
                                   line_numbers |-> <<line.po_line>>])
             ELSE [i \in DOMAIN grouped |->
                     IF i \in at
                     THEN [grouped[i] EXCEPT !.line_numbers = <<line.po_line>>]
                     ELSE grouped[i]]

RECURSIVE GroupLinesByPoNumber(_)
GroupLinesByPoNumber(po_lines) ==
    IF po_lines = <<>> THEN <<>>
    ELSE LET n == Len(po_lines)
             grouped == GroupLinesByPoNumber(SubSeq(po_lines, 1, n - 1))
             line == po_lines[n]
             at == {i \in DOMAIN grouped : grouped[i].po_number = line.po_number}
         IN  IF at = {}
             THEN Append(grouped, [po_number |-> line.po_number,
                                   line_numbers |-> <<line.po_line>>])
             ELSE [i \in DOMAIN grouped |->
                     IF i \in at
                     THEN [grouped[i] EXCEPT !.line_numbers = Append(@, line.po_line)]
                     ELSE grouped[i]]

----------------------------------------------------------------------------
(* _check_lines_not_assigned *)

\* the statuses of the query's status.in_([...]) filter
ClaimingStatuses == {DRAFT, PENDING_PD_APPROVAL, PENDING_ADMIN_APPROVAL, APPROVED}

\* the query with its status filter narrowed to DRAFT
ExistingForDraftOnly(table, po_number) ==
    {i \in DOMAIN table : /\ table[i].external_po_number = po_number
                          /\ table[i].status = DRAFT}

\* the query without its status filter
ExistingForAnyStatus(table, po_number) ==
    {i \in DOMAIN table : table[i].external_po_number = po_number}

\* the rows the query for po_number returns
ExistingFor(table, po_number) ==
    {i \in DOMAIN table : /\ table[i].external_po_number = po_number
                          /\ table[i].status \in ClaimingStatuses}

\* set(line_numbers) & set(assignment.external_po_line_numbers)
Overlap(line_numbers, row) ==
    LineSet(line_numbers) \cap LineSet(row.external_po_line_numbers)

\* the HTTPException(400) raised for a row of one group's query
ConflictsInGroup(table, group) ==
    {[po_number |-> group.po_number,
      overlap |-> Overlap(group.line_numbers, table[i]),
      internal_po_id |-> table[i].internal_po_id] :
        i \in {j \in ExistingFor(table, group.po_number) :
                   Overlap(group.line_numbers, table[j]) # {}}}

\* _check_lines_not_assigned taking the groups in no fixed order
CheckLinesNotAssignedAnyGroup(table, grouped) ==
    UNION {ConflictsInGroup(table, grouped[g]) : g \in DOMAIN grouped}

\* The exceptions the check may raise: those of the first group (in dict order)
\* that overlaps a claiming row.  The query has no ORDER BY, so which of that
\* group's overlapping rows comes first is the database's choice.  {} when the
\* check passes.
CheckLinesNotAssigned(table, grouped) ==
    LET hit == {g \in DOMAIN grouped : ConflictsInGroup(table, grouped[g]) # {}}
    IN  IF hit = {} THEN {}
        ELSE ConflictsInGroup(table,
                 grouped[CHOOSE g \in hit : \A h \in hit : g <= h])

----------------------------------------------------------------------------
(* _generate_internal_po_id *)

\* .filter(like(prefix%)).order_by(Assignment.internal_po_id.desc()).first():
\* the rows with the prefix that no other such row follows in string order
LastAssignment(table, date) ==
    LET cand == {i \in DOMAIN table : HasPrefix(table[i].internal_po_id, date)}
    IN  {i \in cand : \A j \in cand :
            ~StrLess(table[i].internal_po_id.seq, table[j].internal_po_id.seq)}

GenerateInternalPoId(table, date) ==
    LET lastRows == LastAssignment(table, date)
    IN  IF lastRows # {}
        THEN LET last_assignment == table[CHOOSE i \in lastRows : TRUE]
                 last_seq == ParseInt(last_assignment.internal_po_id.seq)
             IN  InternalPoId(date, last_seq + 1)
        ELSE InternalPoId(date, 1)

----------------------------------------------------------------------------
(* Responses *)

\* the handler returned; ids: the internal_po_id of every row the request built
Ok == [kind |-> "ok", code |-> 200, conflict |-> None, ids |-> <<>>]

\* HTTPException(status_code, detail) and the errors raised below the service:
\*   Validation      422, a request body the pydantic schema refuses
\*   NotFound        404, "SBC not found" / "Assignment not found"
\*   Conflict        400, "PO ... line(s) ... already assigned in ..."
\*   InvalidState    400, "Cannot <op> assignment in <status> status"
\*   Permission      403
\*   IntegrityError  500, the unique index on internal_po_id refused the INSERT
Err(kind, code) == [kind |-> kind, code |-> code, conflict |-> None, ids |-> <<>>]

ConflictErr(c) == [kind |-> "Conflict", code |-> 400, conflict |-> Some(c), ids |-> <<>>]

----------------------------------------------------------------------------
(* Session.commit() *)

\* a column without the unique index: every INSERT is accepted
UniqueIdsNotEnforced(table, pending) == TRUE

\* the unique index on internal_po_id (Column(String(50), unique=True)) accepts
\* the pending rows: none repeats a stored id, no two of them share one
UniqueIdsKept(table, pending) ==
    /\ \A p \in DOMAIN pending : \A i \in DOMAIN table :
           pending[p].internal_po_id # table[i].internal_po_id
    /\ \A p, q \in DOMAIN pending :
           p # q => pending[p].internal_po_id # pending[q].internal_po_id

\* the INSERTs of a flush: the server defaults fill created_at and updated_at
InsertAll(table, pending, now) ==
    table \o [p \in DOMAIN pending |->
                [pending[p] EXCEPT !.created_at = Some(now), !.updated_at = Some(now)]]

\* a store that keeps every INSERT made before the one the index refuses
CommitInsertRowByRow(table, pending, now) ==
    LET RECURSIVE ins(_, _)
        ins(t, k) == IF k > Len(pending) THEN t
                     ELSE IF UniqueIdsKept(t, <<pending[k]>>)
                     THEN ins(InsertAll(t, <<pending[k]>>, now), k + 1)
                     ELSE t
    IN  ins(table, 1)

\* commit() of a session holding added rows: all INSERTs or, on IntegrityError, none
CommitInsert(table, pending, now) ==
    IF UniqueIdsKept(table, pending) THEN InsertAll(table, pending, now) ELSE table

\* the attributes whose assigned value differs from the loaded one: the columns
\* of the UPDATE the unit of work emits
Changed(row, assigned) ==
    [f \in {g \in DOMAIN assigned : assigned[g] # row[g]} |-> assigned[f]]

Written(writes, f, old) == IF f \in DOMAIN writes THEN writes[f] ELSE old

\* UPDATE assignments SET <writes>, updated_at = now() WHERE id = <row's id>
UpdateRow(row, writes, now) ==
    [internal_po_id |-> row.internal_po_id,
     created_by_pm_id |-> row.created_by_pm_id,
     assigned_to_sbc_id |-> Written(writes, "assigned_to_sbc_id", row.assigned_to_sbc_id),
     pd_approved_by_id |-> Written(writes, "pd_approved_by_id", row.pd_approved_by_id),
     admin_approved_by_id |-> Written(writes, "admin_approved_by_id", row.admin_approved_by_id),
     rejected_by_id |-> Written(writes, "rejected_by_id", row.rejected_by_id),
     external_po_number |-> row.external_po_number,
     external_po_line_numbers |->
         Written(writes, "external_po_line_numbers", row.external_po_line_numbers),
     status |-> Written(writes, "status", row.status),
     assignment_notes |-> Written(writes, "assignment_notes", row.assignment_notes),
     pd_remarks |-> Written(writes, "pd_remarks", row.pd_remarks),
     admin_remarks |-> Written(writes, "admin_remarks", row.admin_remarks),
     rejection_reason |-> Written(writes, "rejection_reason", row.rejection_reason),
     created_at |-> row.created_at,
     updated_at |-> Some(now),
     submitted_at |-> Written(writes, "submitted_at", row.submitted_at),
     pd_approved_at |-> Written(writes, "pd_approved_at", row.pd_approved_at),
     admin_approved_at |-> Written(writes, "admin_approved_at", row.admin_approved_at),
     rejected_at |-> Written(writes, "rejected_at", row.rejected_at)]

\* an UPDATE without its WHERE clause: the writes land on every row
CommitUpdateAllRows(table, id, writes, now) ==
    IF DOMAIN writes = {} \/ id \notin DOMAIN table THEN table
    ELSE [i \in DOMAIN table |-> UpdateRow(table[i], writes, now)]

\* commit() of a session holding one loaded row: no UPDATE when nothing changed
CommitUpdate(table, id, writes, now) ==
    IF DOMAIN writes = {} \/ id \notin DOMAIN table THEN table
    ELSE [table EXCEPT ![id] = UpdateRow(@, writes, now)]

----------------------------------------------------------------------------
(* Requests: the arguments a route hands to the service.  Fields a request *)
(* does not carry are None.                                                *)

Request(op, actor, target, po_lines, po_number, lines, sbc, notes, text) ==
    [op |-> op, actor |-> actor, target |-> target, po_lines |-> po_lines,
     po_number |-> po_number, lines |-> lines, sbc |-> sbc, notes |-> notes,
     text |-> text]

NoRequest == Request("none", "", None, <<>>, None, None, None, None, None)

\* the request is a creation (POST /assignments/bulk or POST /assignments)
IsCreation(req) == req.op \in {"bulk_create", "create_single"}

\* what a handler leaves behind: its response and the table after its commit
Outcome(resp, table) == [resp |-> resp, table |-> table]

\* what the part of a transition handler before commit() leaves behind: the
\* response it is heading for, and the attributes it assigned on the loaded row
Loaded(resp, writes) == [resp |-> resp, writes |-> writes]

NoWrites == [f \in {} |-> None]

----------------------------------------------------------------------------
(* Request schemas (app/schemas/assignment.py) *)

\* BulkAssignmentCreate without validate_po_lines_unique
BulkAssignmentCreateNonEmpty(po_lines) == Len(po_lines) >= 1

\* BulkAssignmentCreate: po_lines min_length=1 and validate_po_lines_unique
BulkAssignmentCreateValid(po_lines) ==
    /\ Len(po_lines) >= 1
    /\ \A i, j \in DOMAIN po_lines : i # j => po_lines[i] # po_lines[j]

\* AssignmentCreate: external_po_line_numbers min_length=1
AssignmentCreateValid(lines) == Len(lines) >= 1

\* AssignmentUpdate: external_po_line_numbers None or min_length=1
AssignmentUpdateValid(lines) == IsNone(lines) \/ Len(lines[1]) >= 1

\* AssignmentReject without min_length
AssignmentRejectAny(reason) == TRUE

\* AssignmentReject: rejection_reason min_length=1
AssignmentRejectValid(reason) == reason # ""

----------------------------------------------------------------------------
(* bulk_create_assignments and create_assignment *)

\* The loop of bulk_create_assignments over grouped_lines.items(): every turn asks
\* _generate_internal_po_id, which queries the stored rows.  The session is made
\* with autoflush=False, so the rows added in earlier turns are not flushed and
\* the query sees the table as it was: `table` is the same in every turn.
PendingAssignments(table, grouped, pm, sbc, notes, now) ==
    [g \in DOMAIN grouped |->
        NewAssignment(GenerateInternalPoId(table, now), pm, sbc,
                      grouped[g].po_number, grouped[g].line_numbers, notes)]

\* the ids of the rows a request created, in creation order
IdsOf(pending) == [p \in DOMAIN pending |-> pending[p].internal_po_id]

\* db.commit() of the added rows, and the response
CreateCommitted(table, pending, now) ==
    IF UniqueIdsKept(table, pending)
    THEN Outcome([Ok EXCEPT !.ids = IdsOf(pending)], CommitInsert(table, pending, now))
    ELSE Outcome([Err("IntegrityError", 500) EXCEPT !.ids = IdsOf(pending)],
                 CommitInsert(table, pending, now))

\* a creation that checks the lines before it looks the SBC up
CreateOutcomesCheckFirst(table, grouped, pm, sbc, notes, now) ==
    LET conflicts == CheckLinesNotAssigned(table, grouped)
    IN  IF conflicts # {}
        THEN {Outcome(ConflictErr(c), table) : c \in conflicts}
        ELSE IF ~SbcFound(sbc) THEN {Outcome(Err("NotFound", 404), table)}
        ELSE {CreateCommitted(table,
                  PendingAssignments(table, grouped, pm, sbc, notes, now), now)}

\* the outcomes of a creation of the groups `grouped` (one group for
\* create_assignment), run to completion on `table`
CreateOutcomes(table, grouped, pm, sbc, notes, now) ==
    IF ~SbcFound(sbc) THEN {Outcome(Err("NotFound", 404), table)}
    ELSE LET conflicts == CheckLinesNotAssigned(table, grouped)
         IN  IF conflicts # {}
             THEN {Outcome(ConflictErr(c), table) : c \in conflicts}
             ELSE {CreateCommitted(table,
                       PendingAssignments(table, grouped, pm, sbc, notes, now), now)}

BulkCreateAssignments(table, po_lines, sbc, notes, pm, now) ==
    IF ~BulkAssignmentCreateValid(po_lines)
    THEN {Outcome(Err("Validation", 422), table)}
    ELSE LET grouped_lines == GroupLinesByPoNumber(po_lines)
         IN  CreateOutcomes(table, grouped_lines, pm, sbc, notes, now)

CreateAssignment(table, po_number, lines, sbc, notes, pm, now) ==
    IF ~AssignmentCreateValid(lines)
    THEN {Outcome(Err("Validation", 422), table)}
    ELSE CreateOutcomes(table, <<[po_number |-> po_number, line_numbers |-> lines]>>,
                        pm, sbc, notes, now)

----------------------------------------------------------------------------
(* The transitions, up to their commit *)

\* update_assignment without the check of creator or admin
UpdateAssignmentByAnyone(table, id, lines, sbc, notes, user_id) ==
    IF id \notin DOMAIN table THEN Loaded(Err("NotFound", 404), NoWrites)
    ELSE LET assignment == table[id]
             given == (IF IsNone(lines) THEN {} ELSE {"external_po_line_numbers"})
                      \cup (IF IsNone(sbc) THEN {} ELSE {"assigned_to_sbc_id"})
                      \cup (IF IsNone(notes) THEN {} ELSE {"assignment_notes"})
             value == [external_po_line_numbers |-> IF IsNone(lines) THEN <<>> ELSE lines[1],
                       assigned_to_sbc_id |-> IF IsNone(sbc) THEN "" ELSE sbc[1],
                       assignment_notes |-> notes]
         IN  IF assignment.status # DRAFT
             THEN Loaded(Err("InvalidState", 400), NoWrites)
             ELSE IF ~IsNone(sbc) /\ ~SbcFound(sbc[1])
             THEN Loaded(Err("NotFound", 404),
                         Changed(assignment,
                                 [f \in given \cap {"external_po_line_numbers"} |-> value[f]]))
             ELSE Loaded(Ok, Changed(assignment, [f \in given |-> value[f]]))

\* update_assignment
UpdateAssignment(table, id, lines, sbc, notes, user_id) ==
    IF id \notin DOMAIN table THEN Loaded(Err("NotFound", 404), NoWrites)
    ELSE LET assignment == table[id]
             given == (IF IsNone(lines) THEN {} ELSE {"external_po_line_numbers"})
                      \cup (IF IsNone(sbc) THEN {} ELSE {"assigned_to_sbc_id"})
                      \cup (IF IsNone(notes) THEN {} ELSE {"assignment_notes"})
             value == [external_po_line_numbers |-> IF IsNone(lines) THEN <<>> ELSE lines[1],
                       assigned_to_sbc_id |-> IF IsNone(sbc) THEN "" ELSE sbc[1],
                       assignment_notes |-> notes]
         IN  IF assignment.status # DRAFT
             THEN Loaded(Err("InvalidState", 400), NoWrites)
             ELSE IF /\ assignment.created_by_pm_id # user_id
                     /\ RoleOfUser(user_id) # Some(UserRole.ADMIN)
             THEN Loaded(Err("Permission", 403), NoWrites)
             ELSE IF ~IsNone(sbc) /\ ~SbcFound(sbc[1])
             THEN \* raised after the line numbers were assigned on the loaded row
                  Loaded(Err("NotFound", 404),
                         Changed(assignment,
                                 [f \in given \cap {"external_po_line_numbers"} |-> value[f]]))
             ELSE Loaded(Ok, Changed(assignment, [f \in given |-> value[f]]))

\* submit_for_approval without the check of the creator
SubmitForApprovalByAnyone(table, id, user_id, now) ==
    IF id \notin DOMAIN table THEN Loaded(Err("NotFound", 404), NoWrites)
    ELSE LET assignment == table[id]
         IN  IF assignment.status # DRAFT
             THEN Loaded(Err("InvalidState", 400), NoWrites)
             ELSE Loaded(Ok, Changed(assignment,
                      [status |-> PENDING_PD_APPROVAL, submitted_at |-> Some(now)]))

\* submit_for_approval
SubmitForApproval(table, id, user_id, now) ==
    IF id \notin DOMAIN table THEN Loaded(Err("NotFound", 404), NoWrites)
    ELSE LET assignment == table[id]
         IN  IF assignment.created_by_pm_id # user_id
             THEN Loaded(Err("Permission", 403), NoWrites)
             ELSE IF assignment.status # DRAFT
             THEN Loaded(Err("InvalidState", 400), NoWrites)
             ELSE Loaded(Ok, Changed(assignment,
                      [status |-> PENDING_PD_APPROVAL, submitted_at |-> Some(now)]))

\* approve_level1 without the verification of the role
ApproveLevel1AnyRole(table, id, pd_id, pd_remarks, now) ==
    IF id \notin DOMAIN table THEN Loaded(Err("NotFound", 404), NoWrites)
    ELSE LET assignment == table[id]
         IN  IF assignment.status # PENDING_PD_APPROVAL
             THEN Loaded(Err("InvalidState", 400), NoWrites)
             ELSE Loaded(Ok, Changed(assignment,
                      [status |-> PENDING_ADMIN_APPROVAL,
                       pd_approved_by_id |-> Some(pd_id),
                       pd_approved_at |-> Some(now),
                       pd_remarks |-> pd_remarks]))

\* approve_level1
ApproveLevel1(table, id, pd_id, pd_remarks, now) ==
    IF id \notin DOMAIN table THEN Loaded(Err("NotFound", 404), NoWrites)
    ELSE LET assignment == table[id]
         IN  IF assignment.status # PENDING_PD_APPROVAL
             THEN Loaded(Err("InvalidState", 400), NoWrites)
             ELSE IF RoleOfUser(pd_id) # Some(UserRole.PD)
             THEN Loaded(Err("Permission", 403), NoWrites)
             ELSE Loaded(Ok, Changed(assignment,
                      [status |-> PENDING_ADMIN_APPROVAL,
                       pd_approved_by_id |-> Some(pd_id),
                       pd_approved_at |-> Some(now),
                       pd_remarks |-> pd_remarks]))

\* approve_level2 accepting either pending status
ApproveLevel2FromPending(table, id, admin_id, admin_remarks, now) ==
    IF id \notin DOMAIN table THEN Loaded(Err("NotFound", 404), NoWrites)
    ELSE LET assignment == table[id]
         IN  IF assignment.status \notin {PENDING_PD_APPROVAL, PENDING_ADMIN_APPROVAL}
             THEN Loaded(Err("InvalidState", 400), NoWrites)
             ELSE IF RoleOfUser(admin_id) # Some(UserRole.ADMIN)
             THEN Loaded(Err("Permission", 403), NoWrites)
             ELSE Loaded(Ok, Changed(assignment,
                      [status |-> APPROVED,
                       admin_approved_by_id |-> Some(admin_id),
                       admin_approved_at |-> Some(now),
                       admin_remarks |-> admin_remarks]))

\* approve_level2 verifying the role before the status
ApproveLevel2RoleFirst(table, id, admin_id, admin_remarks, now) ==
    IF id \notin DOMAIN table THEN Loaded(Err("NotFound", 404), NoWrites)
    ELSE LET assignment == table[id]
         IN  IF RoleOfUser(admin_id) # Some(UserRole.ADMIN)
             THEN Loaded(Err("Permission", 403), NoWrites)
             ELSE IF assignment.status # PENDING_ADMIN_APPROVAL
             THEN Loaded(Err("InvalidState", 400), NoWrites)
             ELSE Loaded(Ok, Changed(assignment,
                      [status |-> APPROVED,
                       admin_approved_by_id |-> Some(admin_id),
                       admin_approved_at |-> Some(now),
                       admin_remarks |-> admin_remarks]))

\* approve_level2
ApproveLevel2(table, id, admin_id, admin_remarks, now) ==
    IF id \notin DOMAIN table THEN Loaded(Err("NotFound", 404), NoWrites)
    ELSE LET assignment == table[id]
         IN  IF assignment.status # PENDING_ADMIN_APPROVAL
             THEN Loaded(Err("InvalidState", 400), NoWrites)
             ELSE IF RoleOfUser(admin_id) # Some(UserRole.ADMIN)
             THEN Loaded(Err("Permission", 403), NoWrites)
             ELSE Loaded(Ok, Changed(assignment,
                      [status |-> APPROVED,
                       admin_approved_by_id |-> Some(admin_id),
                       admin_approved_at |-> Some(now),
                       admin_remarks |-> admin_remarks]))

\* reject_assignment as its docstring has it: back to DRAFT
RejectAssignmentToDraft(table, id, rejector_id, rejection_reason, now) ==
    IF id \notin DOMAIN table THEN Loaded(Err("NotFound", 404), NoWrites)
    ELSE LET assignment == table[id]
         IN  IF assignment.status \notin {PENDING_PD_APPROVAL, PENDING_ADMIN_APPROVAL}
             THEN Loaded(Err("InvalidState", 400), NoWrites)
             ELSE IF RoleOfUser(rejector_id) \notin {Some(UserRole.PD), Some(UserRole.ADMIN)}
             THEN Loaded(Err("Permission", 403), NoWrites)
             ELSE Loaded(Ok, Changed(assignment,
                      [status |-> DRAFT,
                       rejected_by_id |-> Some(rejector_id),
                       rejected_at |-> Some(now),
                       rejection_reason |-> Some(rejection_reason)]))

\* reject_assignment open to the PD alone
RejectAssignmentPDOnly(table, id, rejector_id, rejection_reason, now) ==
    IF id \notin DOMAIN table THEN Loaded(Err("NotFound", 404), NoWrites)
    ELSE LET assignment == table[id]
         IN  IF assignment.status \notin {PENDING_PD_APPROVAL, PENDING_ADMIN_APPROVAL}
             THEN Loaded(Err("InvalidState", 400), NoWrites)
             ELSE IF RoleOfUser(rejector_id) # Some(UserRole.PD)
             THEN Loaded(Err("Permission", 403), NoWrites)
             ELSE Loaded(Ok, Changed(assignment,
                      [status |-> REJECTED,
                       rejected_by_id |-> Some(rejector_id),
                       rejected_at |-> Some(now),
                       rejection_reason |-> Some(rejection_reason)]))

\* reject_assignment
RejectAssignment(table, id, rejector_id, rejection_reason, now) ==
    IF id \notin DOMAIN table THEN Loaded(Err("NotFound", 404), NoWrites)
    ELSE LET assignment == table[id]
         IN  IF assignment.status \notin {PENDING_PD_APPROVAL, PENDING_ADMIN_APPROVAL}
             THEN Loaded(Err("InvalidState", 400), NoWrites)
             ELSE IF RoleOfUser(rejector_id) \notin {Some(UserRole.PD), Some(UserRole.ADMIN)}
             THEN Loaded(Err("Permission", 403), NoWrites)
             ELSE Loaded(Ok, Changed(assignment,
                      [status |-> REJECTED,
                       rejected_by_id |-> Some(rejector_id),
                       rejected_at |-> Some(now),
                       rejection_reason |-> Some(rejection_reason)]))

\* the part of the transition `req` before its commit, on `table`
Transition(table, req, now) ==
    CASE req.op = "update" ->
           IF ~AssignmentUpdateValid(req.lines)
           THEN Loaded(Err("Validation", 422), NoWrites)
           ELSE UpdateAssignment(table, req.target[1], req.lines, req.sbc, req.notes,
                                 req.actor)
      [] req.op = "submit" -> SubmitForApproval(table, req.target[1], req.actor, now)
      [] req.op = "approve_level1" ->
           ApproveLevel1(table, req.target[1], req.actor, req.text, now)
      [] req.op = "approve_level2" ->
           ApproveLevel2(table, req.target[1], req.actor, req.text, now)
      [] req.op = "reject" ->
           IF ~AssignmentRejectValid(req.text[1])
           THEN Loaded(Err("Validation", 422), NoWrites)
           ELSE RejectAssignment(table, req.target[1], req.actor, req.text[1], now)

\* a transition whose session commits what it holds when it is closed
TransitionOutcomeCommitOnClose(table, req, now) ==
    LET loaded == Transition(table, req, now)
    IN  Outcome(loaded.resp, CommitUpdate(table, req.target[1], loaded.writes, now))

\* a transition run to completion: the part before commit, then commit and refresh
TransitionOutcome(table, req, now) ==
    LET loaded == Transition(table, req, now)
    IN  Outcome(loaded.resp,
                IF loaded.resp.kind = "ok"
                THEN CommitUpdate(table, req.target[1], loaded.writes, now)
                ELSE table)

----------------------------------------------------------------------------
(* The reads: GET /assignments/{id} and GET /assignments/my-work.  A       *)
(* response carries the internal_po_id of each assignment it returns.      *)

\* is_admin
IsAdmin(user) == RoleOfUser(user) = Some(UserRole.ADMIN)

\* is_pd
IsPd(user) == RoleOfUser(user) = Some(UserRolePD)

\* get_assignment letting an SBC see its assignments in every status
GetAssignmentAssigned(table, assignment_id, current_user) ==
    IF assignment_id \notin DOMAIN table THEN Err("NotFound", 404)
    ELSE LET assignment == table[assignment_id]
             can_view ==
                 \/ IsAdmin(current_user) \/ IsPd(current_user)
                 \/ assignment.created_by_pm_id = current_user
                 \/ /\ RoleOfUser(current_user) = Some(UserRole.SBC)
                    /\ assignment.assigned_to_sbc_id = current_user
         IN  IF can_view THEN [Ok EXCEPT !.ids = <<assignment.internal_po_id>>]
             ELSE Err("Permission", 403)

\* the route get_assignment
GetAssignment(table, assignment_id, current_user) ==
    IF assignment_id \notin DOMAIN table THEN Err("NotFound", 404)
    ELSE LET assignment == table[assignment_id]
             can_view ==
                 \/ IsAdmin(current_user) \/ IsPd(current_user)
                 \/ assignment.created_by_pm_id = current_user
                 \/ /\ RoleOfUser(current_user) = Some(UserRole.SBC)
                    /\ assignment.assigned_to_sbc_id = current_user
                    /\ assignment.status = APPROVED
         IN  IF can_view THEN [Ok EXCEPT !.ids = <<assignment.internal_po_id>>]
             ELSE Err("Permission", 403)

\* ORDER BY admin_approved_at DESC: NULL comes first, and rows with equal
\* values come in an order the database chooses
ApprovedBefore(table, i, j) ==
    \/ IsNone(table[i].admin_approved_at)
    \/ /\ ~IsNone(table[j].admin_approved_at)
       /\ table[i].admin_approved_at[1] >= table[j].admin_approved_at[1]

\* .offset(skip).limit(limit) of an ordered result
OffsetLimit(rows, skip, limit) ==
    IF skip >= Len(rows) THEN <<>>
    ELSE SubSeq(rows, skip + 1, IF skip + limit < Len(rows) THEN skip + limit ELSE Len(rows))

\* get_assignments_for_sbc: the results the query may give
GetAssignmentsForSbc(table, sbc_id, skip, limit) ==
    LET found == {i \in DOMAIN table : /\ table[i].assigned_to_sbc_id = sbc_id
                                       /\ table[i].status = APPROVED}
        orders == {q \in [1..Cardinality(found) -> found] :
                      /\ \A a, b \in DOMAIN q : a # b => q[a] # q[b]
                      /\ \A a, b \in DOMAIN q : a < b => ApprovedBefore(table, q[a], q[b])}
    IN  {OffsetLimit(q, skip, limit) : q \in orders}

\* the route get_my_work: the responses it may give
GetMyWork(table, current_user, page, per_page) ==
    IF RoleOfUser(current_user) # Some(UserRole.SBC) THEN {Err("Permission", 403)}
    ELSE {[Ok EXCEPT !.ids = [k \in DOMAIN rows |-> table[rows[k]].internal_po_id]] :
             rows \in GetAssignmentsForSbc(table, current_user, (page - 1) * per_page,
                                           per_page)}

----------------------------------------------------------------------------
(* The requests the model sends *)

PoNumbers == {"1212121", "1313131"}

PoLines == {"2", "3"}

Selections == [po_number : PoNumbers, po_line : PoLines]

\* po_lines of a bulk request: the empty list and a repeated selection included
Batches == UNION {[1..n -> Selections] : n \in 0..MaxBatch}

\* external_po_line_numbers of a single creation or an update
LineLists == {<<>>, <<"2">>, <<"3">>, <<"2", "3">>, <<"2", "2">>}

\* who creates assignments
Creators == {"pm1"}

\* assigned_to_sbc_id of a creation: an SBC, a user of another role, no user
Assignees == {"sbc1", "pm2", GhostId}

\* who calls the transitions
Actors == {"pm1", "pm2", "pd1", "admin1"}

\* the fields an update request supplies
Patches ==
    {[lines |-> None, sbc |-> None, notes |-> None],
     [lines |-> Some(<<>>), sbc |-> None, notes |-> None],
     [lines |-> Some(<<"2">>), sbc |-> None, notes |-> None],
     [lines |-> Some(<<"3">>), sbc |-> None, notes |-> None],
     [lines |-> Some(<<"2", "3">>), sbc |-> Some("pm2"), notes |-> None]}

\* pd_remarks, admin_remarks
Remarks == {Some("fine")}

\* rejection_reason
Reasons == {"", " ", "wrong lines"}

\* assignment ids a transition may name (an id beyond the table is no row's)
Targets == 1..MaxRows

----------------------------------------------------------------------------
(* Authentication (app/services/auth_service.py, app/api/deps.py,          *)
(* app/core/security.py).  The clock counts whole seconds: jwt.encode       *)
(* writes the claims iat and exp as whole seconds.  Columns that no handler *)
(* reads back (last_login_at, last_activity, expires_at, the rows of       *)
(* login_history) are left out.                                            *)

MAX_LOGIN_ATTEMPTS == 5

LOCKOUT_DURATION_MINUTES == 30

ACCESS_TOKEN_EXPIRE_MINUTES == 1440

REFRESH_TOKEN_EXPIRE_DAYS == 30

MIN_PASSWORD_LENGTH == 8

\* rows table user_sessions may hold
MaxSessions == 2

\* timedelta(minutes=n) in seconds; an hour has 60 minutes, a day 24 * 60
Minutes(n) == n * 60

\* the rows of internal_users that log in
AuthUsers == {"pm1", "pm2", "admin1"}

\* an email that is no row's
UnknownEmail == "nobody"

\* passwords, character by character
RightPassword == <<"S", "e", "c", "r", "e", "t", "1", "2">>

WrongPassword == <<"G", "u", "e", "s", "s", "i", "n", "g", "1">>

NewPassword == <<"C", "h", "a", "n", "g", "e", "d", "9">>

WeakPassword == <<"s", "h", "o", "r", "t">>

\* validate_password: TRUE when the password meets the requirements of the
\* settings (REQUIRE_SPECIAL_CHAR is off)
validate_password(password) ==
    LET UpperCase == {"A", "B", "C", "D", "E", "F", "G", "H", "I", "J", "K", "L", "M",
                      "N", "O", "P", "Q", "R", "S", "T", "U", "V", "W", "X", "Y", "Z"}
        LowerCase == {"a", "b", "c", "d", "e", "f", "g", "h", "i", "j", "k", "l", "m",
                      "n", "o", "p", "q", "r", "s", "t", "u", "v", "w", "x", "y", "z"}
        DigitChars == {"0", "1", "2", "3", "4", "5", "6", "7", "8", "9"}
        Contains(class) == \E i \in 1..Len(password) : password[i] \in class
    IN  /\ Len(password) >= MIN_PASSWORD_LENGTH
        /\ Contains(UpperCase)
        /\ Contains(LowerCase)
        /\ Contains(DigitChars)

\* pwd_context.hash / pwd_context.verify
hash_password(password) == [scheme |-> "bcrypt", digest |-> password]

verify_password(plain_password, hashed_password) ==
    hashed_password = hash_password(plain_password)

\* create_access_token(data) at second `now`: jwt.encode(claims, SECRET_KEY,
\* HS256), the claims under the signature of the key
create_access_token(sub, now) ==
    [alg |-> "HS256", signed |-> TRUE,
     claims |-> [sub |-> sub, type |-> "access", iat |-> now,
                 exp |-> now + Minutes(ACCESS_TOKEN_EXPIRE_MINUTES)]]

\* create_refresh_token(data) at second `now`
create_refresh_token(sub, now) ==
    [alg |-> "HS256", signed |-> TRUE,
     claims |-> [sub |-> sub, type |-> "refresh", iat |-> now,
                 exp |-> now + Minutes(REFRESH_TOKEN_EXPIRE_DAYS * 24 * 60)]]

\* a bearer string that is no JWT of this key
GarbageToken == [alg |-> "HS256", claims |-> <<>>, signed |-> FALSE]

\* decode_token(token) at second `now`: the claims, or None when the signature
\* is not the key's or exp has passed
decode_token(token, now) ==
    IF token.signed /\ token.claims.exp >= now THEN Some(token.claims) ELSE None

\* responses of the authentication handlers
\* the user a dependency returns, the value a service method returns
AuthOk(user) == [kind |-> "ok", code |-> 200, user |-> Some(user), token |-> None]

Returned(value) == [kind |-> "ok", code |-> 200, user |-> None, token |-> None,
                    value |-> value]

AuthErr(kind, code) == [kind |-> kind, code |-> code, user |-> None, token |-> None]

Tokens(user, access_token, refresh_token) ==
    [kind |-> "ok", code |-> 200, user |-> Some(user),
     token |-> Some([access_token |-> access_token, refresh_token |-> refresh_token])]

\* the outcome of a handler: the tables it leaves committed and its response
AuthOutcome(users, sessions, resp) ==
    [users |-> users, sessions |-> sessions, resp |-> resp]

\* UNIQUE(token), UNIQUE(refresh_token) on user_sessions
UniqueTokensKept(sessions) ==
    \A i, j \in DOMAIN sessions :
        i # j => /\ sessions[i].token # sessions[j].token
                 /\ sessions[i].refresh_token # sessions[j].refresh_token

\* login's unlocking of an account whose lock has run out
UnlockExpiredKeepingCount(user) ==
    [user EXCEPT !.is_locked = FALSE, !.locked_until = None]

UnlockExpired(user) ==
    [user EXCEPT !.is_locked = FALSE, !.locked_until = None,
                 !.failed_login_attempts = 0]

\* login's count of a wrong password at second `now`: one more failed attempt,
\* and the lock when the attempts reach MAX_LOGIN_ATTEMPTS
RecordFailureLockingLate(user, now) ==
    LET counted == [user EXCEPT !.failed_login_attempts = @ + 1]
    IN  IF counted.failed_login_attempts > MAX_LOGIN_ATTEMPTS
        THEN [counted EXCEPT !.is_locked = TRUE,
                             !.locked_until =
                                 Some(now + Minutes(LOCKOUT_DURATION_MINUTES))]
        ELSE counted

RecordFailure(user, now) ==
    LET counted == [user EXCEPT !.failed_login_attempts = @ + 1]
    IN  IF counted.failed_login_attempts >= MAX_LOGIN_ATTEMPTS
        THEN [counted EXCEPT !.is_locked = TRUE,
                             !.locked_until =
                                 Some(now + Minutes(LOCKOUT_DURATION_MINUTES))]
        ELSE counted

\* AuthService.login(credentials) at second `now`
Login(users, sessions, email, password, now) ==
    IF email \notin DOMAIN users
    THEN AuthOutcome(users, sessions, AuthErr("InvalidCredentials", 401))
    ELSE
    LET user == users[email]
    IN  IF ~user.is_active
        THEN AuthOutcome(users, sessions, AuthErr("AccountDisabled", 403))
        ELSE IF /\ user.is_locked
                /\ ~IsNone(user.locked_until)
                /\ user.locked_until[1] > now
        THEN AuthOutcome(users, sessions, AuthErr("AccountLocked", 403))
        ELSE
        LET unlocked == IF user.is_locked THEN UnlockExpired(user) ELSE user
        IN  IF ~verify_password(password, unlocked.password_hash)
            THEN LET failed == RecordFailure(unlocked, now)
                 IN  AuthOutcome([users EXCEPT ![email] = failed], sessions,
                                 IF failed.is_locked
                                 THEN AuthErr("AccountLocked", 403)
                                 ELSE AuthErr("InvalidCredentials", 401))
            ELSE LET access_token == create_access_token(email, now)
                     refresh_token == create_refresh_token(email, now)
                     added ==
                         Append(sessions,
                                [user_id |-> email, token |-> access_token,
                                 refresh_token |-> refresh_token, is_active |-> TRUE,
                                 refresh_expires_at |->
                                     now + Minutes(REFRESH_TOKEN_EXPIRE_DAYS * 24 * 60)])
                 IN  IF ~UniqueTokensKept(added)
                     THEN AuthOutcome(users, sessions, AuthErr("IntegrityError", 500))
                     ELSE AuthOutcome(
                              [users EXCEPT ![email] =
                                  [unlocked EXCEPT !.failed_login_attempts = 0]],
                              added, Tokens(email, access_token, refresh_token))

\* AuthService.logout(token)
Logout(users, sessions, token) ==
    LET DifferentToken(row) == row.token # token
    IN  IF \E i \in DOMAIN sessions : sessions[i].token = token
        THEN AuthOutcome(users, SelectSeq(sessions, DifferentToken), Returned(TRUE))
        ELSE AuthOutcome(users, sessions, Returned(FALSE))

\* AuthService.refresh_token(refresh_token) at second `now`
RefreshToken(users, sessions, refresh_token, now) ==
    LET found == {i \in DOMAIN sessions : /\ sessions[i].refresh_token = refresh_token
                                          /\ sessions[i].is_active}
    IN  IF found = {}
        THEN AuthOutcome(users, sessions, AuthErr("InvalidRefreshToken", 401))
        ELSE
        LET i == CHOOSE k \in found : TRUE
            session == sessions[i]
            Others(row) == row.refresh_token # refresh_token
        IN  IF session.refresh_expires_at < now
            THEN AuthOutcome(users, SelectSeq(sessions, Others),
                             AuthErr("RefreshTokenExpired", 401))
            ELSE IF \/ session.user_id \notin DOMAIN users
                    \/ ~users[session.user_id].is_active
            THEN AuthOutcome(users, sessions, AuthErr("UserNotFoundOrInactive", 401))
            ELSE
            LET new_access_token == create_access_token(session.user_id, now)
                updated == [sessions EXCEPT ![i].token = new_access_token]
            IN  IF ~UniqueTokensKept(updated)
                THEN AuthOutcome(users, sessions, AuthErr("IntegrityError", 500))
                ELSE AuthOutcome(users, updated,
                                 Tokens(session.user_id, new_access_token, refresh_token))

\* AuthService.request_password_reset(email) at second `now`; `reset_token` is
\* the value create_password_reset_token() draws
RequestPasswordReset(users, sessions, email, reset_token, now) ==
    IF email \notin DOMAIN users
    THEN AuthOutcome(users, sessions, Returned(TRUE))
    ELSE AuthOutcome(
             [users EXCEPT ![email] =
                 [@ EXCEPT !.password_reset_token = Some(reset_token),
                           !.password_reset_token_expires = Some(now + Minutes(60))]],
             sessions, Returned(TRUE))

\* AuthService.reset_password(token, new_password) at second `now`
ResetPassword(users, sessions, token, new_password, now) ==
    IF ~validate_password(new_password)
    THEN AuthOutcome(users, sessions, AuthErr("WeakPassword", 400))
    ELSE
    LET found == {u \in DOMAIN users : users[u].password_reset_token = Some(token)}
    IN  IF found = {}
        THEN AuthOutcome(users, sessions, AuthErr("InvalidResetToken", 400))
        ELSE
        LET u == CHOOSE k \in found : TRUE
            OfOthers(row) == row.user_id # u
        IN  IF users[u].password_reset_token_expires[1] < now
            THEN AuthOutcome(users, sessions, AuthErr("ResetTokenExpired", 400))
            ELSE AuthOutcome(
                     [users EXCEPT ![u] =
                         [@ EXCEPT !.password_hash = hash_password(new_password),
                                   !.password_reset_token = None,
                                   !.password_reset_token_expires = None]],
                     SelectSeq(sessions, OfOthers), Returned(TRUE))

\* get_current_user(credentials) at second `now`: the user, or 401
GetCurrentUser(users, sessions, token, now) ==
    LET payload == decode_token(token, now)
    IN  IF IsNone(payload)
        THEN AuthErr("Unauthenticated", 401)
        ELSE IF \A i \in DOMAIN sessions :
                    ~(sessions[i].token = token /\ sessions[i].is_active)
        THEN AuthErr("Unauthenticated", 401)
        ELSE IF payload[1].sub \notin DOMAIN users
        THEN AuthErr("Unauthenticated", 401)
        ELSE AuthOk(payload[1].sub)

\* the tables before anybody has logged in: the rows of internal_users carry
\* the column defaults, admin1 has been deactivated
AuthInit ==
    /\ internal_users =
           [u \in AuthUsers |->
               [is_active |-> u # "admin1", is_locked |-> FALSE, locked_until |-> None,
                failed_login_attempts |-> 0,
                password_hash |-> hash_password(RightPassword),
                password_reset_token |-> None,
                password_reset_token_expires |-> None]]
    /\ user_sessions = <<>>
    /\ clock = 0
    /\ revoked = {}

----------------------------------------------------------------------------
(* Spec: one request at a time *)

NoSessions == <<>>

Init ==
    /\ assignments = <<>>
    /\ today = 1
    /\ last = [req |-> NoRequest, resp |-> Ok]
    /\ sess = NoSessions
    /\ AuthInit

\* no request is being served
Idle == last.req = NoRequest

\* the request `req` is served with outcome `o`
Served(req, o) ==
    /\ Len(o.table) <= MaxRows
    /\ assignments' = o.table
    /\ last' = [req |-> req, resp |-> o.resp]
    /\ UNCHANGED <<today, sess, authVars>>

BulkCreate ==
    /\ Idle
    /\ \E po_lines \in Batches, sbc \in Assignees, pm \in Creators :
           \E o \in BulkCreateAssignments(assignments, po_lines, sbc, None, pm, today) :
               Served(Request("bulk_create", pm, None, po_lines, None, None,
                              Some(sbc), None, None), o)

CreateSingle ==
    /\ Idle
    /\ \E po_number \in PoNumbers, lines \in LineLists, sbc \in Assignees, pm \in Creators :
           \E o \in CreateAssignment(assignments, po_number, lines, sbc, None, pm, today) :
               Served(Request("create_single", pm, None, <<>>, Some(po_number), Some(lines),
                              Some(sbc), None, None), o)

\* the transition request `req`, run to completion
Serve(req) == \E o \in {TransitionOutcome(assignments, req, today)} : Served(req, o)

\* PUT /assignments/{id} with a body out of `patches`
UpdateOf(patches) ==
    /\ Idle
    /\ \E id \in Targets, patch \in patches, user \in Actors :
           Serve(Request("update", user, Some(id), <<>>, None, patch.lines, patch.sbc,
                         patch.notes, None))

Update == UpdateOf(Patches)

Submit ==
    /\ Idle
    /\ \E id \in Targets, user \in Actors :
           Serve(Request("submit", user, Some(id), <<>>, None, None, None, None, None))

Approve1 ==
    /\ Idle
    /\ \E id \in Targets, user \in Actors, remarks \in Remarks :
           Serve(Request("approve_level1", user, Some(id), <<>>, None, None, None, None,
                         remarks))

Approve2 ==
    /\ Idle
    /\ \E id \in Targets, user \in Actors, remarks \in Remarks :
           Serve(Request("approve_level2", user, Some(id), <<>>, None, None, None, None,
                         remarks))

Reject ==
    /\ Idle
    /\ \E id \in Targets, user \in Actors, reason \in Reasons :
           Serve(Request("reject", user, Some(id), <<>>, None, None, None, None,
                         Some(reason)))

\* the response goes out; the next request may come
Respond ==
    /\ ~Idle
    /\ last' = [req |-> NoRequest, resp |-> Ok]
    /\ UNCHANGED <<assignments, today, sess, authVars>>

Next ==
    \/ BulkCreate
    \/ CreateSingle
    \/ Update
    \/ Submit
    \/ Approve1
    \/ Approve2
    \/ Reject
    \/ Respond

Spec == Init /\ [][Next]_vars

----------------------------------------------------------------------------
(* SpecEdit: the life of a DRAFT.  One creation request, updates with      *)
(* every combination of supplied and absent fields, and submit.            *)

\* bodies of AssignmentUpdate: each field absent or supplied, the assignee an
\* SBC or a user of another role
WidePatches ==
    [lines : {None, Some(<<"3">>), Some(<<"2", "3">>)},
     sbc : {None, Some("sbc2"), Some("pm2")},
     notes : {None, Some("recount")}]

CreateDraft ==
    /\ Idle
    /\ \E o \in CreateAssignment(assignments, "1212121", <<"2">>, "sbc1", None, "pm1", today) :
           Served(Request("create_single", "pm1", None, <<>>, Some("1212121"),
                          Some(<<"2">>), Some("sbc1"), None, None), o)

UpdateWide == UpdateOf(WidePatches)

NextEdit ==
    \/ CreateDraft
    \/ UpdateWide
    \/ Submit
    \/ Respond

SpecEdit == Init /\ [][NextEdit]_vars

----------------------------------------------------------------------------
(* SpecRead: the requests of Spec and, between them, the reads of the      *)
(* assignees and of a project manager who created nothing.                 *)

Readers == {"sbc1", "sbc2", "pm2"}

\* page and per_page of a list request
Pages == {1, 2}

PerPages == {1, 20}

GetById ==
    /\ Idle
    /\ \E id \in Targets, user \in Readers :
           Served(Request("get", user, Some(id), <<>>, None, None, None, None, None),
                  Outcome(GetAssignment(assignments, id, user), assignments))

MyWork ==
    /\ Idle
    /\ \E user \in Readers, page \in Pages, per_page \in PerPages :
           \E resp \in GetMyWork(assignments, user, page, per_page) :
               Served(Request("my_work", user, None, <<>>, None, None, None, None, None),
                      Outcome(resp, assignments))

NextRead ==
    \/ BulkCreate
    \/ CreateSingle
    \/ Update
    \/ Submit
    \/ Approve1
    \/ Approve2
    \/ Reject
    \/ GetById
    \/ MyWork
    \/ Respond

SpecRead == Init /\ [][NextRead]_vars

----------------------------------------------------------------------------
(* SpecGen: single creations on the tables that earlier days of work left  *)

\* how many assignments were created on date 1 before the model starts
RunLengths == {0, 1, 2, 9, 10, 99, 100, 998, 999, 1000}

\* the status the n-th of them has reached meanwhile
StatusCycle == <<DRAFT, PENDING_PD_APPROVAL, PENDING_ADMIN_APPROVAL, APPROVED,
                 REJECTED, CANCELLED>>

\* the row after the transition op by actor, committed on date 1
After(row, op, actor, text) ==
    UpdateRow(row,
              Transition(<<row>>, Request(op, actor, Some(1), <<>>, None, None, None,
                                          None, text), 1).writes,
              1)

\* the row as the workflow brings it to status st; CANCELLED is set outside the
\* service (no handler assigns it)
RowInStatus(row, st) ==
    CASE st = DRAFT -> row
      [] st = PENDING_PD_APPROVAL -> After(row, "submit", "pm1", None)
      [] st = PENDING_ADMIN_APPROVAL ->
           After(After(row, "submit", "pm1", None), "approve_level1", "pd1", Some("fine"))
      [] st = APPROVED ->
           After(After(After(row, "submit", "pm1", None),
                       "approve_level1", "pd1", Some("fine")),
                 "approve_level2", "admin1", Some("fine"))
      [] st = REJECTED ->
           After(After(row, "submit", "pm1", None), "reject", "pd1", Some("wrong lines"))
      [] st = CANCELLED -> [row EXCEPT !.status = CANCELLED]

\* the n-th assignment of date 1: line n of PO 1212121
ExistingRow(n) ==
    RowInStatus(InsertAll(<<>>, <<NewAssignment(InternalPoId(1, n), "pm1", "sbc1",
                                                "1212121", <<ToString(n)>>, None)>>, 1)[1],
                StatusCycle[((n - 1) % Len(StatusCycle)) + 1])

\* the table after n creations on date 1
ExistingTable(n) == [k \in 1..n |-> ExistingRow(k)]

\* external_po_line_numbers of a creation in SpecGen: lines held by a DRAFT, an
\* APPROVED, a REJECTED and a CANCELLED row of the tables above, and a free line
GenLineLists == {<<"1">>, <<"4">>, <<"5", "6">>, <<"1001">>}

InitGen ==
    /\ assignments \in {ExistingTable(n) : n \in RunLengths}
    /\ today = 1
    /\ last = [req |-> NoRequest, resp |-> Ok]
    /\ sess = NoSessions
    /\ AuthInit

\* POST /assignments on PO 1212121
CreateOnExisting ==
    /\ Idle
    /\ \E lines \in GenLineLists :
           \E o \in CreateAssignment(assignments, "1212121", lines, "sbc1", None, "pm1",
                                     today) :
               /\ assignments' = o.table
               /\ last' = [req |-> Request("create_single", "pm1", None, <<>>,
                                           Some("1212121"), Some(lines), Some("sbc1"),
                                           None, None),
                           resp |-> o.resp]
               /\ UNCHANGED <<today, sess, authVars>>

\* datetime.now() moves to the next date
Tick ==
    /\ Idle
    /\ today < MaxDay
    /\ today' = today + 1
    /\ UNCHANGED <<assignments, last, sess, authVars>>

NextGen ==
    \/ CreateOnExisting
    \/ Respond
    \/ Tick

SpecGen == InitGen /\ [][NextGen]_vars

----------------------------------------------------------------------------
(* SpecConc: two requests at a time, each in its own database session.     *)
(* get_db gives every request a Session of its own; the engine sets no     *)
(* isolation level, so each SELECT reads the rows committed when it runs,  *)
(* and no handler locks a row.  A session's steps are its queries and its  *)
(* commit; steps of the two sessions interleave.                           *)

Sessions == {1, 2}

\* a session: where its handler stands (pc), the request, the groups of a
\* creation and the one the loop is at, the rows added and not flushed, the
\* status of the row a transition loaded, the attributes assigned on it, and the
\* response
IdleSession ==
    [pc |-> "idle", req |-> NoRequest, grouped |-> <<>>, at |-> 0, pending |-> <<>>,
     loaded |-> None, writes |-> NoWrites, resp |-> Ok]

\* the creations sent in SpecConc
ConcCreations ==
    {Request("bulk_create", "pm1", None, po_lines, None, None, Some(sbc), None, None) :
        po_lines \in {<<[po_number |-> "1212121", po_line |-> "2"]>>,
                      <<[po_number |-> "1212121", po_line |-> "2"],
                        [po_number |-> "1313131", po_line |-> "2"]>>},
        sbc \in {"sbc1", GhostId}}
    \cup {Request("create_single", "pm1", None, <<>>, Some("1212121"), Some(<<"2", "3">>),
                  Some("sbc1"), None, None)}

\* the transitions sent in SpecConc
ConcTransitions ==
    {Request(c.op, c.actor, Some(id), <<>>, None, c.lines, None, None, c.text) :
        id \in 1..MaxConcRows,
        c \in {[op |-> "update", actor |-> "pm1", lines |-> Some(<<"3">>), text |-> None],
               [op |-> "submit", actor |-> "pm1", lines |-> None, text |-> None],
               [op |-> "approve_level1", actor |-> "pd1", lines |-> None,
                text |-> Some("fine")],
               [op |-> "approve_level2", actor |-> "admin1", lines |-> None,
                text |-> Some("fine")],
               [op |-> "reject", actor |-> "pd1", lines |-> None,
                text |-> Some("wrong lines")]}}

\* the groups of a creation request
GroupsOfRequest(req) ==
    IF req.op = "bulk_create" THEN GroupLinesByPoNumber(req.po_lines)
    ELSE <<[po_number |-> req.po_number[1], line_numbers |-> req.lines[1]]>>

\* the schema of a creation request accepts its body
CreationValid(req) ==
    IF req.op = "bulk_create" THEN BulkAssignmentCreateValid(req.po_lines)
    ELSE AssignmentCreateValid(req.lines[1])

\* rows the creations in flight may still insert
RowsInFlight == LET RECURSIVE sum(_)
                    sum(S) == IF S = {} THEN 0
                              ELSE LET s == CHOOSE x \in S : TRUE
                                   IN  Len(sess[s].grouped) + sum(S \ {s})
                IN  sum({s \in Sessions : sess[s].pc \in {"check", "gen", "commit"}})

InitConc ==
    /\ assignments = <<>>
    /\ today = 1
    /\ last = [req |-> NoRequest, resp |-> Ok]
    /\ sess = [s \in Sessions |-> IdleSession]
    /\ AuthInit

\* the session s ends its request with `resp`
Done(s, resp) == sess' = [sess EXCEPT ![s].pc = "done", ![s].resp = resp]

\* a creation out of `requests` arrives: the schema, then the query for the SBC
BeginCreateOf(s, requests) ==
    /\ sess[s].pc = "idle"
    /\ \E req \in requests :
           /\ Len(assignments) + RowsInFlight + Len(GroupsOfRequest(req)) <= MaxConcRows
           /\ sess' = [sess EXCEPT ![s] =
                  IF ~CreationValid(req)
                  THEN [IdleSession EXCEPT !.pc = "done", !.req = req,
                                           !.resp = Err("Validation", 422)]
                  ELSE IF ~SbcFound(req.sbc[1])
                  THEN [IdleSession EXCEPT !.pc = "done", !.req = req,
                                           !.resp = Err("NotFound", 404)]
                  ELSE [IdleSession EXCEPT !.pc = "check", !.req = req, !.at = 1,
                                           !.grouped = GroupsOfRequest(req)]]
    /\ UNCHANGED <<assignments, today, last, authVars>>

BeginCreate(s) == BeginCreateOf(s, ConcCreations)

\* one turn of the loop of _check_lines_not_assigned: the query for one PO number
CheckGroup(s) ==
    /\ sess[s].pc = "check"
    /\ LET conflicts == ConflictsInGroup(assignments, sess[s].grouped[sess[s].at])
       IN  IF conflicts # {}
           THEN \E c \in conflicts : Done(s, ConflictErr(c))
           ELSE IF sess[s].at < Len(sess[s].grouped)
           THEN sess' = [sess EXCEPT ![s].at = @ + 1]
           ELSE sess' = [sess EXCEPT ![s].pc = "gen", ![s].at = 1]
    /\ UNCHANGED <<assignments, today, last, authVars>>

\* one turn of the creation loop: the query of _generate_internal_po_id, db.add
GenerateAndAdd(s) ==
    /\ sess[s].pc = "gen"
    /\ LET added == PendingAssignments(assignments, <<sess[s].grouped[sess[s].at]>>,
                                       sess[s].req.actor, sess[s].req.sbc[1],
                                       sess[s].req.notes, today)
       IN  sess' = [sess EXCEPT ![s].pending = @ \o added,
                                ![s].at = IF @ < Len(sess[s].grouped) THEN @ + 1 ELSE @,
                                ![s].pc = IF sess[s].at < Len(sess[s].grouped)
                                          THEN "gen" ELSE "commit"]
    /\ UNCHANGED <<today, last, assignments, authVars>>

\* db.commit() of a creation
CommitCreate(s) ==
    /\ sess[s].pc = "commit"
    /\ IsCreation(sess[s].req)
    /\ LET o == CreateCommitted(assignments, sess[s].pending, today)
       IN  /\ assignments' = o.table
           /\ Done(s, o.resp)
    /\ UNCHANGED <<today, last, authVars>>

\* a transition arrives: the schema, get_assignment_by_id, the checks on the
\* loaded row and the assignments to its attributes
BeginTransition(s) ==
    /\ sess[s].pc = "idle"
    /\ \E req \in ConcTransitions :
           LET loaded == Transition(assignments, req, today)
               row == IF req.target[1] \in DOMAIN assignments
                      THEN Some(assignments[req.target[1]].status) ELSE None
           IN  sess' = [sess EXCEPT ![s] =
                   [IdleSession EXCEPT !.pc = IF loaded.resp.kind = "ok" THEN "commit"
                                              ELSE "done",
                                       !.req = req, !.loaded = row,
                                       !.writes = loaded.writes, !.resp = loaded.resp]]
    /\ UNCHANGED <<assignments, today, last, authVars>>

\* db.commit() and db.refresh() of a transition
CommitTransition(s) ==
    /\ sess[s].pc = "commit"
    /\ ~IsCreation(sess[s].req)
    /\ assignments' = CommitUpdate(assignments, sess[s].req.target[1], sess[s].writes, today)
    /\ Done(s, sess[s].resp)
    /\ UNCHANGED <<today, last, authVars>>

\* the response goes out and the session is closed
Return(s) ==
    /\ sess[s].pc = "done"
    /\ sess' = [sess EXCEPT ![s] = IdleSession]
    /\ UNCHANGED <<assignments, today, last, authVars>>

NextConc ==
    \/ \E s \in Sessions : BeginCreate(s)
    \/ \E s \in Sessions : CheckGroup(s)
    \/ \E s \in Sessions : GenerateAndAdd(s)
    \/ \E s \in Sessions : CommitCreate(s)
    \/ \E s \in Sessions : BeginTransition(s)
    \/ \E s \in Sessions : CommitTransition(s)
    \/ \E s \in Sessions : Return(s)

SpecConc == InitConc /\ [][NextConc]_vars

----------------------------------------------------------------------------
(* SpecGroup: bulk requests of up to MaxGroupLen selections, one at a time *)
(* in session 1, taken through grouping, check, generation and commit      *)

\* po_lines of a bulk request in SpecGroup
WideBatches == UNION {[1..n -> Selections] : n \in 0..MaxGroupLen}

GroupCreations ==
    {Request("bulk_create", "pm1", None, po_lines, None, None, Some("sbc1"), None, None) :
        po_lines \in WideBatches}

BeginBulk == BeginCreateOf(1, GroupCreations)

NextGroup ==
    \/ BeginBulk
    \/ CheckGroup(1)
    \/ GenerateAndAdd(1)
    \/ CommitCreate(1)
    \/ Return(1)

SpecGroup == InitConc /\ [][NextGroup]_vars

----------------------------------------------------------------------------
(* SpecLogin: login attempts, one at a time, as the clock advances *)

AuthRequest(op, email, password, token) ==
    [op |-> op, email |-> email, password |-> password, token |-> token]

\* the access tokens of the rows of `before` that `after` no longer holds
TokensDeleted(before, after) ==
    {before[i].token : i \in DOMAIN before} \ {after[i].token : i \in DOMAIN after}

\* the request `req` is served with outcome `o`; `r` are the access tokens
\* logged out or reset since the last login of their user
AuthServed(req, o, r) ==
    /\ Len(o.sessions) <= MaxSessions
    /\ internal_users' = o.users
    /\ user_sessions' = o.sessions
    /\ revoked' = r
    /\ last' = [req |-> req, resp |-> o.resp]
    /\ UNCHANGED <<assignments, today, sess, clock>>

\* a login with one of `credentials`, pairs of email and password
LoginOf(credentials) ==
    \E c \in credentials :
        LET o == Login(internal_users, user_sessions, c[1], c[2], clock)
        IN  AuthServed(AuthRequest("login", Some(c[1]), Some(c[2]), None), o,
                       IF o.resp.kind = "ok"
                       THEN {t \in revoked : t.claims.sub # c[1]}
                       ELSE revoked)

\* the clock moves on to a later one of `instants`
TickOf(instants) ==
    /\ \E t \in instants : t > clock /\ clock' = t
    /\ last' = [req |-> NoRequest, resp |-> Ok]
    /\ UNCHANGED <<assignments, today, sess, internal_users, user_sessions, revoked>>

LoginAttempt ==
    LoginOf((AuthUsers \cup {UnknownEmail}) \X {RightPassword, WrongPassword})

\* two seconds in a row, and the seconds at which a lock set at either of them
\* has run out
ClockTick ==
    TickOf({0, 1, Minutes(LOCKOUT_DURATION_MINUTES),
            Minutes(LOCKOUT_DURATION_MINUTES) + 1})

NextLogin ==
    \/ LoginAttempt
    \/ ClockTick

SpecLogin == Init /\ [][NextLogin]_vars

----------------------------------------------------------------------------
(* SpecAuth: logins, logouts, refreshes, password resets and authenticated *)
(* requests, one at a time, within a second, a second later and after the  *)
(* access tokens of the first second have expired *)

\* what the clients send
BearerTokens ==
    {create_access_token(u, t) : u \in {"pm1", "pm2"}, t \in {0, 1}}
        \cup {GarbageToken}

\* the value create_password_reset_token() draws
ResetToken == "reset-a"

SignIn ==
    LoginOf({<<"pm1", RightPassword>>, <<"pm1", NewPassword>>,
             <<"pm2", RightPassword>>, <<UnknownEmail, RightPassword>>})

LogoutRequest ==
    \E token \in BearerTokens :
        LET o == Logout(internal_users, user_sessions, token)
        IN  AuthServed(AuthRequest("logout", None, None, Some(token)), o,
                       revoked \cup TokensDeleted(user_sessions, o.sessions))

Refresh ==
    \E refresh_token \in {create_refresh_token(u, t) : u \in {"pm1", "pm2"},
                                                        t \in {0, 1}} :
        LET o == RefreshToken(internal_users, user_sessions, refresh_token, clock)
        IN  AuthServed(AuthRequest("refresh", None, None, Some(refresh_token)), o,
                       revoked)

ForgotPassword ==
    \E email \in {"pm1", UnknownEmail} :
        LET o == RequestPasswordReset(internal_users, user_sessions, email,
                                      ResetToken, clock)
        IN  AuthServed(AuthRequest("forgot_password", Some(email), None, None), o,
                       revoked)

ResetPasswordRequest ==
    \E token \in {ResetToken, "reset-b"},
       new_password \in {NewPassword, WeakPassword} :
        LET o == ResetPassword(internal_users, user_sessions, token, new_password,
                               clock)
        IN  AuthServed(AuthRequest("reset_password", None, Some(new_password),
                                   Some(token)), o,
                       revoked \cup TokensDeleted(user_sessions, o.sessions))

\* a request to a route that depends on get_current_user
Authenticate ==
    \E token \in BearerTokens :
        /\ last' = [req |-> AuthRequest("get_current_user", None, None, Some(token)),
                    resp |-> GetCurrentUser(internal_users, user_sessions, token,
                                            clock)]
        /\ UNCHANGED <<assignments, today, sess, authVars>>

SessionTick == TickOf({0, 1, Minutes(ACCESS_TOKEN_EXPIRE_MINUTES) + 1})

NextAuth ==
    \/ SignIn
    \/ LogoutRequest
    \/ Refresh
    \/ ForgotPassword
    \/ ResetPasswordRequest
    \/ Authenticate
    \/ SessionTick

SpecAuth == Init /\ [][NextAuth]_vars

----------------------------------------------------------------------------
(* Vocabulary of the claims *)

\* the statuses in which an assignment holds its lines
NonTerminal == {"DRAFT", "PENDING_PD_APPROVAL", "PENDING_ADMIN_APPROVAL", "APPROVED"}

\* the (PO number, PO line) pairs a row holds
PairsOfRow(row) ==
    {<<row.external_po_number, row.external_po_line_numbers[k]>> :
        k \in DOMAIN row.external_po_line_numbers}

\* the rows of `table` that hold the pair `pair` in a non-terminal status
Holders(table, pair) ==
    {i \in DOMAIN table : table[i].status \in NonTerminal /\ pair \in PairsOfRow(table[i])}

\* the (PO number, PO line) pairs a creation request selects
PairsOfRequest(req) ==
    IF req.op = "bulk_create"
    THEN {<<req.po_lines[k].po_number, req.po_lines[k].po_line>> : k \in DOMAIN req.po_lines}
    ELSE {<<req.po_number[1], req.lines[1][k]>> : k \in DOMAIN req.lines[1]}

\* the PO numbers a creation request selects
PoNumbersOfRequest(req) == {pair[1] : pair \in PairsOfRequest(req)}

\* the lines a creation request selects for PO number po, as a set
LinesOfRequest(req, po) == {pair[2] : pair \in {q \in PairsOfRequest(req) : q[1] = po}}

\* a creation request the schemas accept, naming an existing SBC as assignee
WellFormedCreation(req) ==
    /\ IsCreation(req)
    /\ req.sbc[1] \in UserIds /\ InternalUsers[req.sbc[1]] = "SBC"
    /\ IF req.op = "bulk_create"
       THEN /\ req.po_lines # <<>>
            /\ Cardinality(PairsOfRequest(req)) = Len(req.po_lines)
       ELSE req.lines[1] # <<>>

\* some selected pair of the request is held by a non-terminal row of `table`
SelectsHeldPair(req, table) == \E pair \in PairsOfRequest(req) : Holders(table, pair) # {}

\* this step serves a creation request (last' holds it and its response)
ServesCreation == last.req.op = "none" /\ IsCreation(last'.req)

----------------------------------------------------------------------------
(* C1: in every reachable state no two distinct assignments in a           *)
(* non-terminal status (DRAFT, PENDING_PD_APPROVAL, PENDING_ADMIN_APPROVAL, *)
(* APPROVED) hold a common (PO number, PO line) pair.                      *)
C1_NoSharedLine ==
    \A i, j \in DOMAIN assignments :
        (/\ i # j
         /\ assignments[i].status \in NonTerminal
         /\ assignments[j].status \in NonTerminal)
        => PairsOfRow(assignments[i]) \cap PairsOfRow(assignments[j]) = {}

----------------------------------------------------------------------------
(* C4, as stated: whenever a non-terminal assignment holds (P, L), every   *)
(* creation whose selection contains (P, L) fails with a conflict error    *)
(* that names that assignment, and persists nothing.                       *)
C4_EveryHolderNamed ==
    [][ServesCreation =>
          \A pair \in PairsOfRequest(last'.req) :
              \A i \in Holders(assignments, pair) :
                  /\ last'.resp.kind = "Conflict"
                  /\ last'.resp.conflict[1].internal_po_id = assignments[i].internal_po_id
                  /\ assignments' = assignments]_vars

(* C4, amended: a creation the schemas accept, with an existing SBC as     *)
(* assignee, that selects a pair held by a non-terminal assignment fails   *)
(* with a conflict error; the error names a PO number of the selection, a  *)
(* non-terminal assignment of that PO number and the selected lines that   *)
(* assignment holds (at least one); and no assignment is persisted.        *)
C4_ConflictRefused ==
    [][(ServesCreation /\ WellFormedCreation(last'.req)
                       /\ SelectsHeldPair(last'.req, assignments)) =>
          /\ last'.resp.kind = "Conflict"
          /\ assignments' = assignments
          /\ LET c == last'.resp.conflict[1]
             IN  /\ c.po_number \in PoNumbersOfRequest(last'.req)
                 /\ c.overlap # {}
                 /\ \E i \in DOMAIN assignments :
                       /\ assignments[i].status \in NonTerminal
                       /\ assignments[i].internal_po_id = c.internal_po_id
                       /\ assignments[i].external_po_number = c.po_number
                       /\ c.overlap = LinesOfRequest(last'.req, c.po_number)
                                      \cap {pair[2] : pair \in PairsOfRow(assignments[i])}]_vars

\* a bulk request over two PO numbers was refused for a conflict on the second
C4_Witness ==
    /\ last.req.op = "bulk_create"
    /\ last.resp.kind = "Conflict"
    /\ Len(last.req.po_lines) = 2
    /\ last.req.po_lines[1].po_number # last.req.po_lines[2].po_number
    /\ last.resp.conflict[1].po_number = last.req.po_lines[2].po_number
    /\ assignments # <<>>

----------------------------------------------------------------------------
(* C5: a creation (schemas satisfied, existing SBC as assignee) none of    *)
(* whose selected pairs is held by a non-terminal assignment succeeds and  *)
(* persists, for every selected PO number, one new DRAFT assignment with   *)
(* exactly the lines selected for it.                                      *)
C5_DisjointSucceeds ==
    [][(ServesCreation /\ WellFormedCreation(last'.req)
                       /\ ~SelectsHeldPair(last'.req, assignments)) =>
          /\ last'.resp.kind = "ok"
          /\ \A po \in PoNumbersOfRequest(last'.req) :
                \E i \in DOMAIN assignments' \ DOMAIN assignments :
                    /\ assignments'[i].external_po_number = po
                    /\ assignments'[i].status = "DRAFT"
                    /\ {pair[2] : pair \in PairsOfRow(assignments'[i])}
                           = LinesOfRequest(last'.req, po)]_vars

----------------------------------------------------------------------------
(* C8: a bulk creation over k >= 2 PO numbers (schemas satisfied, existing *)
(* SBC, no selected pair held) persists exactly k new assignments, one per *)
(* PO number, each DRAFT with the lines selected for it, with k distinct   *)
(* internal ids whose sequence numbers are consecutive.                    *)
C8_OnePerPoNumber ==
    [][(/\ ServesCreation
        /\ last'.req.op = "bulk_create"
        /\ WellFormedCreation(last'.req)
        /\ Cardinality(PoNumbersOfRequest(last'.req)) >= 2
        /\ ~SelectsHeldPair(last'.req, assignments)) =>
          LET k == Cardinality(PoNumbersOfRequest(last'.req))
              new == DOMAIN assignments' \ DOMAIN assignments
          IN  /\ last'.resp.kind = "ok"
              /\ Cardinality(new) = k
              /\ \A po \in PoNumbersOfRequest(last'.req) :
                    \E i \in new :
                        /\ assignments'[i].external_po_number = po
                        /\ assignments'[i].status = "DRAFT"
                        /\ {pair[2] : pair \in PairsOfRow(assignments'[i])}
                               = LinesOfRequest(last'.req, po)
              /\ \A i, j \in new :
                    i < j => ParseInt(assignments'[j].internal_po_id.seq)
                             = ParseInt(assignments'[i].internal_po_id.seq) + (j - i)]_vars

----------------------------------------------------------------------------
(* C6: only assignments in DRAFT, PENDING_PD_APPROVAL,                     *)
(* PENDING_ADMIN_APPROVAL or APPROVED count for the conflict check: a      *)
(* creation (schemas satisfied, existing SBC) whose selected pairs are     *)
(* held by no assignment in those statuses, whatever REJECTED or CANCELLED *)
(* assignments hold them, does not fail with a conflict error.             *)
C6_TerminalNotClaiming ==
    [][(ServesCreation /\ WellFormedCreation(last'.req)
                       /\ ~SelectsHeldPair(last'.req, assignments)) =>
          last'.resp.kind # "Conflict"]_vars

\* a creation succeeded on two lines of which a REJECTED assignment holds one
\* and a CANCELLED assignment the other
C6_Witness ==
    /\ IsCreation(last.req)
    /\ last.resp.kind = "ok"
    /\ \E pair \in PairsOfRequest(last.req) : \E i \in DOMAIN assignments :
           assignments[i].status = "REJECTED" /\ pair \in PairsOfRow(assignments[i])
    /\ \E pair \in PairsOfRequest(last.req) : \E i \in DOMAIN assignments :
           assignments[i].status = "CANCELLED" /\ pair \in PairsOfRow(assignments[i])

----------------------------------------------------------------------------
(* Sequence numbers *)

\* the rows of `table` whose internal id carries the date `date`
RowsOfDate(table, date) == {i \in DOMAIN table : table[i].internal_po_id.date = date}

\* the number a sequence of decimal digits denotes
Value(digits) ==
    LET RECURSIVE val(_)
        val(k) == IF k = 0 THEN 0 ELSE 10 * val(k - 1) + digits[k]
    IN  val(Len(digits))

\* digits is the number n written in decimal, zero-padded to three digits
Renders(digits, n) ==
    /\ Value(digits) = n
    /\ Len(digits) >= 3
    /\ Len(digits) > 3 => digits[1] # 0

(* C9: when the assignments of a date are the first N-1 in a row of        *)
(* successful creations begun with none for that date, the next successful *)
(* single creation receives sequence number N, written with three digits   *)
(* (001, 002, ...), and its id equals no id already present.               *)
C9_SequentialNumbers ==
    [][(ServesCreation /\ last'.req.op = "create_single" /\ last'.resp.kind = "ok") =>
          LET N == Cardinality(RowsOfDate(assignments, today)) + 1
              created == assignments'[Len(assignments')]
          IN  /\ Len(assignments') = Len(assignments) + 1
              /\ created.internal_po_id.date = today
              /\ Renders(created.internal_po_id.seq, N)
              /\ last'.resp.ids = <<created.internal_po_id>>
              /\ \A i \in DOMAIN assignments :
                     assignments[i].internal_po_id # created.internal_po_id]_vars

\* the third creation in a row on a table that held nothing received 003
C9_Witness ==
    /\ last.req.op = "create_single"
    /\ last.resp.kind = "ok"
    /\ Len(assignments) = 3
    /\ \A i \in 1..3 : /\ assignments[i].internal_po_id = [date |-> 1, seq |-> <<0, 0, i>>]
                       /\ assignments[i].status = "DRAFT"
    /\ assignments[1].external_po_line_numbers = <<"1001">>
    /\ last.resp.ids = <<[date |-> 1, seq |-> <<0, 0, 3>>]>>

----------------------------------------------------------------------------
(* C10: the sequence number a creation generates is one more than the      *)
(* numerically largest sequence number among the ids of today's date, and  *)
(* 1 when there is none -- also once numbers of more than three digits     *)
(* exist.                                                                  *)
C10_NumericMaxPlusOne ==
    [][(ServesCreation /\ last'.resp.ids # <<>>) =>
          LET present == {Value(assignments[i].internal_po_id.seq) :
                              i \in RowsOfDate(assignments, today)}
              generated == Value(last'.resp.ids[1].seq)
          IN  /\ \A n \in present : n < generated
              /\ generated = 1 \/ (generated - 1) \in present]_vars

----------------------------------------------------------------------------
(* Concurrent requests *)

\* session s has answered a creation with success
CreatedOk(s) ==
    /\ sess[s].pc = "done"
    /\ IsCreation(sess[s].req)
    /\ sess[s].resp.kind = "ok"

\* the rows the creation of session s persisted
RowsCreatedBy(s) ==
    {i \in DOMAIN assignments :
        \E k \in DOMAIN sess[s].resp.ids : assignments[i].internal_po_id = sess[s].resp.ids[k]}

\* session s has answered a status transition with success
MovedOk(s) ==
    /\ sess[s].pc = "done"
    /\ sess[s].req.op \in {"submit", "approve_level1", "approve_level2", "reject"}
    /\ sess[s].resp.kind = "ok"

(* C2: two concurrent creations whose selections contain a common          *)
(* (PO number, PO line) pair never both pass the conflict check and both   *)
(* persist: no two sessions have both answered a creation with success     *)
(* while rows they created hold a common pair, both in a non-terminal      *)
(* status (a status is non-terminal only if it has been since creation, so *)
(* the later creation checked before the earlier one committed).           *)
C2_NotBothPersist ==
    \A s, t \in Sessions :
        (s # t /\ CreatedOk(s) /\ CreatedOk(t)) =>
            \A i \in RowsCreatedBy(s), j \in RowsCreatedBy(t) :
                (/\ assignments[i].status \in NonTerminal
                 /\ assignments[j].status \in NonTerminal)
                => PairsOfRow(assignments[i]) \cap PairsOfRow(assignments[j]) = {}

----------------------------------------------------------------------------
(* C3: of two concurrent status transitions on the same assignment that    *)
(* both read the same status, at most one succeeds: no two sessions have   *)
(* both answered with success a submit, approve_level1, approve_level2 or  *)
(* reject of the same assignment whose row they loaded in the same status  *)
(* (every one of these changes the status, and no status comes back, so    *)
(* the two loaded the row before either committed).                        *)
C3_AtMostOneSucceeds ==
    \A s, t \in Sessions :
        (s # t /\ MovedOk(s) /\ MovedOk(t) /\ sess[s].req.target = sess[t].req.target)
        => sess[s].loaded # sess[t].loaded

----------------------------------------------------------------------------
(* C7: no two persisted assignments share an internal_po_id, also after    *)
(* concurrent creations that generated the same id.                        *)
C7_UniqueInternalPoId ==
    \A i, j \in DOMAIN assignments :
        i # j => assignments[i].internal_po_id # assignments[j].internal_po_id

\* two concurrent creations generated the same id; one persisted its row, the
\* other was refused by the unique index
C7_Witness ==
    \E s, t \in Sessions :
        /\ CreatedOk(s)
        /\ sess[t].pc = "done" /\ IsCreation(sess[t].req)
        /\ sess[t].resp.kind = "IntegrityError"
        /\ Len(sess[t].resp.ids) = 1
        /\ sess[t].resp.ids = sess[s].resp.ids
        /\ RowsCreatedBy(s) # {}

----------------------------------------------------------------------------
(* C11: bulk_create is all-or-nothing: a bulk request either answers with  *)
(* success and persists one assignment for every PO number it selects, or  *)
(* answers with an error and leaves the table as it was; never a strict    *)
(* non-empty part of the batch.                                            *)
C11_AllOrNothing ==
    [][(last.req.op = "none" /\ last'.req.op = "bulk_create") =>
          \/ /\ last'.resp.kind # "ok"
             /\ assignments' = assignments
          \/ /\ last'.resp.kind = "ok"
             /\ Len(assignments') = Len(assignments)
                                    + Cardinality(PoNumbersOfRequest(last'.req))
             /\ \A i \in DOMAIN assignments : assignments'[i] = assignments[i]
             /\ \A po \in PoNumbersOfRequest(last'.req) :
                   \E i \in DOMAIN assignments' \ DOMAIN assignments :
                       assignments'[i].external_po_number = po]_vars

\* a bulk request over two PO numbers failed at commit on an id collision and
\* the table holds none of its rows
C11_Witness ==
    /\ last.req.op = "bulk_create"
    /\ Cardinality(PoNumbersOfRequest(last.req)) = 2
    /\ last.resp.kind = "IntegrityError"
    /\ Len(last.resp.ids) = 2
    /\ assignments = <<>>

----------------------------------------------------------------------------
(* C12: a bulk request that contains the same (po_number, po_line) pair    *)
(* twice is refused with a validation error and persists nothing.          *)
C12_DuplicatePairRefused ==
    [][(/\ last.req.op = "none"
        /\ last'.req.op = "bulk_create"
        /\ \E k, l \in DOMAIN last'.req.po_lines :
               k # l /\ last'.req.po_lines[k] = last'.req.po_lines[l]) =>
          /\ last'.resp.kind = "Validation"
          /\ assignments' = assignments]_vars

\* a bulk request repeating a pair that no assignment holds was refused
C12_Witness ==
    /\ last.req.op = "bulk_create"
    /\ Len(last.req.po_lines) = 2
    /\ last.req.po_lines[1] = last.req.po_lines[2]
    /\ last.req.sbc = <<"sbc1">>
    /\ last.resp.kind = "Validation"
    /\ \A pair \in PairsOfRequest(last.req) : Holders(assignments, pair) = {}

----------------------------------------------------------------------------
(* C13: a create_single (existing SBC as assignee) whose line list         *)
(* contains the same line twice fails with a validation error and persists *)
(* nothing.                                                                *)
C13_DuplicateLineRefused ==
    [][(/\ last.req.op = "none"
        /\ last'.req.op = "create_single"
        /\ last'.req.sbc[1] \in DOMAIN InternalUsers
        /\ InternalUsers[last'.req.sbc[1]] = "SBC"
        /\ \E k, l \in DOMAIN last'.req.lines[1] :
               k # l /\ last'.req.lines[1][k] = last'.req.lines[1][l]) =>
          /\ last'.resp.kind = "Validation"
          /\ assignments' = assignments]_vars

----------------------------------------------------------------------------
(* C15: a creation (request body accepted by its schema) whose assignee id *)
(* names no user, or a user whose role is not SBC, fails with a not-found  *)
(* error -- not with a conflict error, even when it selects a held pair -- *)
(* and persists nothing.                                                   *)
C15_BadAssigneeNotFound ==
    [][(/\ ServesCreation
        /\ IF last'.req.op = "bulk_create"
           THEN /\ last'.req.po_lines # <<>>
                /\ Cardinality(PairsOfRequest(last'.req)) = Len(last'.req.po_lines)
           ELSE last'.req.lines[1] # <<>>
        /\ \/ last'.req.sbc[1] \notin DOMAIN InternalUsers
           \/ InternalUsers[last'.req.sbc[1]] # "SBC") =>
          /\ last'.resp.kind = "NotFound"
          /\ assignments' = assignments]_vars

\* a creation naming a project manager as assignee and selecting a held pair was
\* answered with not-found
C15_Witness ==
    /\ IsCreation(last.req)
    /\ last.req.sbc = <<"pm2">>
    /\ last.resp.kind = "NotFound"
    /\ SelectsHeldPair(last.req, assignments)

----------------------------------------------------------------------------
(* Grouping *)

\* the lines selected for PO number po, in the order the request lists them
LinesInOrder(po_lines, po) ==
    LET OfPo(sel) == sel.po_number = po
        chosen == SelectSeq(po_lines, OfPo)
    IN  [k \in DOMAIN chosen |-> chosen[k].po_line]

(* C14: for every non-empty batch of pairwise distinct selections, the     *)
(* grouping yields one group per distinct po_number; the (po_number, line) *)
(* pairs over all groups are exactly the selected pairs, none lost, added  *)
(* or repeated; and the lines of a group stand in the order in which the   *)
(* batch lists them.                                                       *)
C14_GroupingExact ==
    \A s \in DOMAIN sess :
        (sess[s].req.op = "bulk_create" /\ sess[s].pc \in {"check", "gen", "commit"}) =>
            LET po_lines == sess[s].req.po_lines
                grouped == sess[s].grouped
            IN  /\ \A a, b \in DOMAIN grouped :
                       a # b => grouped[a].po_number # grouped[b].po_number
                /\ {grouped[a].po_number : a \in DOMAIN grouped}
                       = {po_lines[k].po_number : k \in DOMAIN po_lines}
                /\ \A a \in DOMAIN grouped :
                       /\ grouped[a].line_numbers
                              = LinesInOrder(po_lines, grouped[a].po_number)
                       /\ \A k, l \in DOMAIN grouped[a].line_numbers :
                              k # l => grouped[a].line_numbers[k]
                                       # grouped[a].line_numbers[l]

\* four selections alternating between two PO numbers were grouped into two
\* groups of two lines
C14_Witness ==
    /\ sess # <<>>
    /\ sess[1].pc = "check"
    /\ sess[1].req.po_lines = <<[po_number |-> "1313131", po_line |-> "3"],
                                [po_number |-> "1212121", po_line |-> "2"],
                                [po_number |-> "1313131", po_line |-> "2"],
                                [po_number |-> "1212121", po_line |-> "3"]>>
    /\ sess[1].grouped = <<[po_number |-> "1313131", line_numbers |-> <<"3", "2">>],
                           [po_number |-> "1212121", line_numbers |-> <<"2", "3">>]>>

----------------------------------------------------------------------------
(* The state machine *)

\* this step serves the operation op on an assignment that exists
ServesOn(op) ==
    /\ last.req.op = "none"
    /\ last'.req.op = op
    /\ last'.req.target[1] \in DOMAIN assignments

\* the assignment the request served in this step names, before the step
Targeted == assignments[last'.req.target[1]]

\* the body of the request served in this step satisfies its schema
BodyAccepted ==
    /\ last'.req.op = "update" => last'.req.lines # <<<<>>>>
    /\ last'.req.op = "reject" => last'.req.text # <<"">>

----------------------------------------------------------------------------
----------------------------------------------------------------------------
(* C18: APPROVED, REJECTED and CANCELLED are terminal: update, submit,     *)
(* approve_level1, approve_level2 and reject (request body accepted by its *)
(* schema) on an assignment in one of these statuses fail, for every       *)
(* actor, with an invalid-state error and leave the table unchanged.       *)
C18_TerminalRefusesAll ==
    [][(/\ \E op \in {"update", "submit", "approve_level1", "approve_level2", "reject"} :
               ServesOn(op)
        /\ BodyAccepted
        /\ Targeted.status \in {"APPROVED", "REJECTED", "CANCELLED"}) =>
          /\ last'.resp.kind = "InvalidState"
          /\ assignments' = assignments]_vars

----------------------------------------------------------------------------
(* C19: submit on a DRAFT assignment by its creator succeeds, moves it to  *)
(* PENDING_PD_APPROVAL and sets submitted_at (nothing else but updated_at  *)
(* changes); by any other actor it fails with a permission error and       *)
(* leaves the table, status and submitted_at included, unchanged.          *)
C19_SubmitByCreatorOnly ==
    [][(ServesOn("submit") /\ Targeted.status = "DRAFT") =>
          IF last'.req.actor = Targeted.created_by_pm_id
          THEN /\ last'.resp.kind = "ok"
               /\ assignments' =
                      [assignments EXCEPT ![last'.req.target[1]] =
                          [@ EXCEPT !.status = "PENDING_PD_APPROVAL",
                                    !.submitted_at = <<today>>,
                                    !.updated_at = <<today>>]]
          ELSE /\ last'.resp.kind = "Permission"
               /\ assignments' = assignments]_vars

\* one assignment was submitted by its creator and is pending with its
\* submitted_at set; a submit of another, DRAFT, by a second project manager
\* was refused and left it DRAFT, not submitted
C19_Witness ==
    /\ last.req.op = "submit"
    /\ last.req.actor = "pm2"
    /\ last.resp.kind = "Permission"
    /\ Len(assignments) = 2
    /\ last.req.target = <<2>>
    /\ assignments[2].status = "DRAFT"
    /\ assignments[2].created_by_pm_id = "pm1"
    /\ assignments[2].submitted_at = <<>>
    /\ assignments[1].status = "PENDING_PD_APPROVAL"
    /\ assignments[1].submitted_at = <<1>>

----------------------------------------------------------------------------
(* C20: submit on an assignment whose status is not DRAFT fails with an    *)
(* invalid-state error and changes neither the status nor submitted_at.    *)
C20_SubmitOnlyFromDraft ==
    [][(ServesOn("submit") /\ Targeted.status # "DRAFT") =>
          /\ last'.resp.kind = "InvalidState"
          /\ assignments' = assignments]_vars

----------------------------------------------------------------------------
(* C21: once an assignment has left DRAFT its line set never changes       *)
(* again: no step, whatever the operation and however the requests         *)
(* overlap, removes a row that is not DRAFT or changes its                 *)
(* external_po_line_numbers.                                               *)
C21_LineSetFrozen ==
    [][\A i \in DOMAIN assignments :
           assignments[i].status # "DRAFT" =>
               /\ i \in DOMAIN assignments'
               /\ assignments'[i].external_po_line_numbers =
                      assignments[i].external_po_line_numbers]_vars

----------------------------------------------------------------------------
(* C22: update on a DRAFT assignment (body accepted by the schema)         *)
(* succeeds only for its creator or an ADMIN; a successful update keeps    *)
(* the status DRAFT, gives each supplied field among line set, assignee    *)
(* and notes the supplied value and leaves every other field but           *)
(* updated_at, and every other row, as it was; for any other actor it      *)
(* fails with a permission error; a failed update changes nothing.         *)
C22_UpdateByCreatorOrAdmin ==
    [][(ServesOn("update") /\ BodyAccepted /\ Targeted.status = "DRAFT") =>
          LET req == last'.req
              t == req.target[1]
              old == Targeted
              new == assignments'[t]
              allowed == \/ req.actor = old.created_by_pm_id
                         \/ RoleOfUser(req.actor) = <<"ADMIN">>
          IN  /\ ~allowed => last'.resp.kind = "Permission"
              /\ last'.resp.kind # "ok" => assignments' = assignments
              /\ last'.resp.kind = "ok" =>
                    /\ allowed
                    /\ DOMAIN assignments' = DOMAIN assignments
                    /\ \A i \in DOMAIN assignments \ {t} : assignments'[i] = assignments[i]
                    /\ new.status = "DRAFT"
                    /\ new.external_po_line_numbers =
                           IF req.lines = <<>> THEN old.external_po_line_numbers
                           ELSE req.lines[1]
                    /\ new.assigned_to_sbc_id =
                           IF req.sbc = <<>> THEN old.assigned_to_sbc_id ELSE req.sbc[1]
                    /\ new.assignment_notes =
                           IF req.notes = <<>> THEN old.assignment_notes ELSE req.notes
                    /\ [new EXCEPT !.external_po_line_numbers = old.external_po_line_numbers,
                                   !.assigned_to_sbc_id = old.assigned_to_sbc_id,
                                   !.assignment_notes = old.assignment_notes,
                                   !.updated_at = old.updated_at] = old]_vars

\* an admin, not the creator, has just updated the notes alone of a DRAFT whose
\* assignee an earlier update had changed: the notes are the supplied ones, the
\* lines and the assignee are the earlier ones
C22_Witness ==
    /\ last.req.op = "update"
    /\ last.req.actor = "admin1"
    /\ last.resp.kind = "ok"
    /\ last.req.lines = <<>>
    /\ last.req.sbc = <<>>
    /\ last.req.notes = <<"recount">>
    /\ LET row == assignments[last.req.target[1]]
       IN  /\ row.status = "DRAFT"
           /\ row.created_by_pm_id = "pm1"
           /\ row.assignment_notes = <<"recount">>
           /\ row.assigned_to_sbc_id = "sbc2"
           /\ row.external_po_line_numbers = <<"2">>

----------------------------------------------------------------------------
----------------------------------------------------------------------------
----------------------------------------------------------------------------
(* C25: reject with an empty reason on a pending assignment fails with a   *)
(* validation error and leaves the table unchanged, and in every state     *)
(* every REJECTED assignment has a rejection_reason that is not empty.     *)
C25_EmptyReasonRefused ==
    /\ [][(/\ ServesOn("reject")
           /\ last'.req.text = <<"">>
           /\ Targeted.status \in {"PENDING_PD_APPROVAL", "PENDING_ADMIN_APPROVAL"}) =>
             /\ last'.resp.kind = "Validation"
             /\ assignments' = assignments]_vars
    /\ [](\A i \in DOMAIN assignments :
              assignments[i].status = "REJECTED" =>
                  /\ assignments[i].rejection_reason # <<>>
                  /\ assignments[i].rejection_reason # <<"">>)

\* the admin's reject with an empty reason was refused; its assignment is still
\* pending and the other one is REJECTED with its reason
C25_Witness ==
    /\ Len(assignments) = 2
    /\ last.req.op = "reject"
    /\ last.req.actor = "admin1"
    /\ last.req.text = <<"">>
    /\ last.resp.kind = "Validation"
    /\ assignments[last.req.target[1]].status = "PENDING_ADMIN_APPROVAL"
    /\ assignments[last.req.target[1]].rejection_reason = <<>>
    /\ \E i \in DOMAIN assignments :
           /\ assignments[i].status = "REJECTED"
           /\ assignments[i].rejection_reason = <<"wrong lines">>

----------------------------------------------------------------------------
(* C26: approve_level1 on a PENDING_PD_APPROVAL assignment by an actor     *)
(* whose role is not PD, and approve_level2 on a PENDING_ADMIN_APPROVAL    *)
(* assignment by an actor whose role is not ADMIN, fail with a permission  *)
(* error, not an invalid-state error, and leave the table unchanged.       *)
C26_PermissionNotState ==
    [][(\/ /\ ServesOn("approve_level1")
           /\ Targeted.status = "PENDING_PD_APPROVAL"
           /\ InternalUsers[last'.req.actor] # "PD"
        \/ /\ ServesOn("approve_level2")
           /\ Targeted.status = "PENDING_ADMIN_APPROVAL"
           /\ InternalUsers[last'.req.actor] # "ADMIN") =>
          /\ last'.resp.kind = "Permission"
          /\ last'.resp.code = 403
          /\ assignments' = assignments]_vars

\* the PD's approve_level2 on an assignment in PENDING_ADMIN_APPROVAL was refused
\* for the role; an admin's approve_level1 would be, on the other assignment
C26_Witness ==
    /\ Len(assignments) = 2
    /\ last.req.op = "approve_level2"
    /\ last.req.actor = "pd1"
    /\ last.resp.kind = "Permission"
    /\ assignments[last.req.target[1]].status = "PENDING_ADMIN_APPROVAL"
    /\ \E i \in DOMAIN assignments : assignments[i].status = "PENDING_PD_APPROVAL"

----------------------------------------------------------------------------
(* C27: no operation silently no-ops: every update, submit,                *)
(* approve_level1, approve_level2 or reject that returns success has       *)
(* changed the stored assignment; an update that supplies no field is not  *)
(* answered with success on an unchanged assignment.                       *)
C27_NoSilentNoOp ==
    [][(/\ last.req.op = "none"
        /\ last'.req.op \in {"update", "submit", "approve_level1", "approve_level2",
                             "reject"}
        /\ last'.resp.kind = "ok") =>
          /\ last'.req.target[1] \in DOMAIN assignments
          /\ assignments'[last'.req.target[1]] # assignments[last'.req.target[1]]]_vars

----------------------------------------------------------------------------
(* C28: an SBC user reads an assignment only if it is assigned to that SBC *)
(* and APPROVED.  GET by id of an existing assignment by an SBC succeeds   *)
(* exactly when both hold and is refused with a permission error           *)
(* otherwise (DRAFT, pending at either level, REJECTED, or another SBC's); *)
(* every assignment the my-work list returns to an SBC is assigned to that *)
(* SBC and APPROVED.                                                       *)
ReadableBy(user) ==
    {i \in DOMAIN assignments : /\ assignments[i].assigned_to_sbc_id = user
                                /\ assignments[i].status = "APPROVED"}

C28_AssigneeSeesApprovedOnly ==
    [][(/\ last.req.op = "none"
        /\ last'.req.actor \in UserIds
        /\ InternalUsers[last'.req.actor] = "SBC") =>
          /\ (last'.req.op = "get" /\ last'.req.target[1] \in DOMAIN assignments) =>
                 /\ last'.resp.kind = "ok" <=> last'.req.target[1] \in ReadableBy(last'.req.actor)
                 /\ last'.resp.kind \in {"ok", "Permission"}
                 /\ last'.resp.kind = "ok" =>
                        last'.resp.ids =
                            <<assignments[last'.req.target[1]].internal_po_id>>
          /\ last'.req.op = "my_work" =>
                 /\ last'.resp.kind = "ok"
                 /\ \A k \in DOMAIN last'.resp.ids :
                        \E i \in ReadableBy(last'.req.actor) :
                            assignments[i].internal_po_id = last'.resp.ids[k]]_vars

\* the assignee's my-work list has just returned the one APPROVED assignment and
\* not the REJECTED one assigned to the same SBC
C28_Witness ==
    /\ Len(assignments) = 2
    /\ last.req.op = "my_work"
    /\ last.req.actor = "sbc1"
    /\ last.resp.kind = "ok"
    /\ \E i, j \in DOMAIN assignments :
           /\ assignments[i].status = "APPROVED"
           /\ assignments[i].assigned_to_sbc_id = "sbc1"
           /\ last.resp.ids = <<assignments[i].internal_po_id>>
           /\ assignments[j].status = "REJECTED"
           /\ assignments[j].assigned_to_sbc_id = "sbc1"

----------------------------------------------------------------------------
----------------------------------------------------------------------------
(* C30: approval records match the status in every reachable state: an     *)
(* assignment in PENDING_ADMIN_APPROVAL or APPROVED has pd_approved_by_id  *)
(* set to a user of role PD and pd_approved_at set; an APPROVED one has    *)
(* also admin_approved_by_id set to a user of role ADMIN,                  *)
(* admin_approved_at and submitted_at set, and rejected_by_id unset.       *)
HasRole(who, role) ==
    /\ who # <<>>
    /\ who[1] \in UserIds
    /\ InternalUsers[who[1]] = role

C30_RecordsMatchStatus ==
    \A i \in DOMAIN assignments :
        LET row == assignments[i]
        IN  /\ row.status \in {"PENDING_ADMIN_APPROVAL", "APPROVED"} =>
                  /\ HasRole(row.pd_approved_by_id, "PD")
                  /\ row.pd_approved_at # <<>>
            /\ row.status = "APPROVED" =>
                  /\ HasRole(row.admin_approved_by_id, "ADMIN")
                  /\ row.admin_approved_at # <<>>
                  /\ row.submitted_at # <<>>
                  /\ row.rejected_by_id = <<>>

----------------------------------------------------------------------------
(* C31: the status of an assignment changes only along the edges           *)
(* DRAFT -> PENDING_PD_APPROVAL, PENDING_PD_APPROVAL ->                    *)
(* PENDING_ADMIN_APPROVAL, PENDING_ADMIN_APPROVAL -> APPROVED,             *)
(* PENDING_PD_APPROVAL -> REJECTED and PENDING_ADMIN_APPROVAL -> REJECTED; *)
(* no assignment is ever CANCELLED.  Every edge leads away from DRAFT by   *)
(* at least one step, and no path of edges is longer than three, so an     *)
(* assignment changes status at most three times.                          *)
StatusEdges ==
    {<<"DRAFT", "PENDING_PD_APPROVAL">>,
     <<"PENDING_PD_APPROVAL", "PENDING_ADMIN_APPROVAL">>,
     <<"PENDING_ADMIN_APPROVAL", "APPROVED">>,
     <<"PENDING_PD_APPROVAL", "REJECTED">>,
     <<"PENDING_ADMIN_APPROVAL", "REJECTED">>}

C31_StatusEdges ==
    [][/\ \A i \in DOMAIN assignments :
              /\ i \in DOMAIN assignments'
              /\ \/ assignments'[i].status = assignments[i].status
                 \/ <<assignments[i].status, assignments'[i].status>> \in StatusEdges
       /\ \A i \in DOMAIN assignments' : assignments'[i].status # "CANCELLED"]_vars

----------------------------------------------------------------------------
(* C32: a failed update persists nothing: an update of a DRAFT assignment  *)
(* by its creator or an admin that supplies a line set and an assignee who *)
(* is no SBC user fails with a not-found error, and the stored assignment  *)
(* keeps its line set, assignee and notes (the whole table is unchanged).  *)
C32_FailedUpdateStoresNothing ==
    [][(/\ ServesOn("update")
        /\ BodyAccepted
        /\ Targeted.status = "DRAFT"
        /\ \/ last'.req.actor = Targeted.created_by_pm_id
           \/ InternalUsers[last'.req.actor] = "ADMIN"
        /\ last'.req.lines # <<>>
        /\ last'.req.sbc # <<>>
        /\ \/ last'.req.sbc[1] \notin UserIds
           \/ InternalUsers[last'.req.sbc[1]] # "SBC") =>
          /\ last'.resp.kind = "NotFound"
          /\ assignments' = assignments]_vars

\* such an update has just failed; the stored line set is not the supplied one
C32_Witness ==
    /\ last.req.op = "update"
    /\ last.req.actor = "pm1"
    /\ last.resp.kind = "NotFound"
    /\ last.req.sbc = <<"pm2">>
    /\ last.req.lines = <<<<"2", "3">>>>
    /\ last.req.target[1] \in DOMAIN assignments
    /\ LET row == assignments[last.req.target[1]]
       IN  /\ row.status = "DRAFT"
           /\ row.external_po_line_numbers = <<"2">>
           /\ row.assigned_to_sbc_id = "sbc1"

----------------------------------------------------------------------------
(* C33: submit, approve_level1, approve_level2 and reject on an assignment *)
(* leave every other assignment unchanged and write, on their own          *)
(* assignment, only the status and the actor, timestamp and remark fields  *)
(* of their step (and updated_at): internal_po_id, creator, assignee,      *)
(* external PO number, line set and the fields of other steps stay.        *)
FieldsOfStep(op) ==
    CASE op = "submit" -> {"status", "submitted_at", "updated_at"}
      [] op = "approve_level1" ->
           {"status", "pd_approved_by_id", "pd_approved_at", "pd_remarks", "updated_at"}
      [] op = "approve_level2" ->
           {"status", "admin_approved_by_id", "admin_approved_at", "admin_remarks",
            "updated_at"}
      [] op = "reject" ->
           {"status", "rejected_by_id", "rejected_at", "rejection_reason", "updated_at"}

C33_TransitionFrame ==
    [][(\E op \in {"submit", "approve_level1", "approve_level2", "reject"} : ServesOn(op)) =>
          /\ DOMAIN assignments' = DOMAIN assignments
          /\ \A i \in DOMAIN assignments \ {last'.req.target[1]} :
                 assignments'[i] = assignments[i]
          /\ \A f \in DOMAIN Targeted \ FieldsOfStep(last'.req.op) :
                 assignments'[last'.req.target[1]][f] = Targeted[f]]_vars

\* approve_level1 has just succeeded on the second of two assignments; the
\* first, a DRAFT with the same assignee, is as it was created
C33_Witness ==
    /\ Len(assignments) = 2
    /\ last.req.op = "approve_level1"
    /\ last.req.target = <<2>>
    /\ last.resp.kind = "ok"
    /\ assignments[2].status = "PENDING_ADMIN_APPROVAL"
    /\ assignments[2].assigned_to_sbc_id = "sbc1"
    /\ assignments[1].status = "DRAFT"
    /\ assignments[1].submitted_at = <<>>
    /\ assignments[1].pd_approved_by_id = <<>>

----------------------------------------------------------------------------
(* Lockout (SpecLogin) *)

\* the step serves a login for the account of u
LoginFor(u) == last'.req.op = "login" /\ last'.req.email = Some(u)

\* the rows of user_sessions that belong to u
SessionsOf(table, u) == {i \in DOMAIN table : table[i].user_id = u}

\* C34: a login with a wrong password for an active, unlocked account adds one
\* failed attempt, opens no session, and locks the account, with an expiry
\* LOCKOUT_DURATION_MINUTES later, exactly when the attempts reach
\* MAX_LOGIN_ATTEMPTS; while an account is locked and its lock has not run out,
\* every login for it, with the right password too, is answered 403, opens no
\* session and leaves the account, failed_login_attempts included, as it was.
C34_LockoutAfterMaxAttempts ==
    [][\A u \in AuthUsers :
        LET before == internal_users[u]
            after == internal_users'[u]
        IN  /\ ( /\ LoginFor(u)
                 /\ before.is_active
                 /\ ~before.is_locked
                 /\ last'.req.password = Some(WrongPassword) )
               => /\ after.failed_login_attempts = before.failed_login_attempts + 1
                  /\ after.is_locked <=> after.failed_login_attempts >= 5
                  /\ after.is_locked
                        => /\ after.locked_until = Some(clock + 30 * 60)
                           /\ last'.resp.code = 403
                  /\ last'.resp.kind # "ok"
                  /\ user_sessions' = user_sessions
            /\ ( /\ LoginFor(u)
                 /\ before.is_locked
                 /\ before.locked_until # None
                 /\ before.locked_until[1] > clock )
               => /\ last'.resp.code = 403
                  /\ after = before
                  /\ user_sessions' = user_sessions]_vars

\* pm1 is locked after five wrong passwords in the first second, and a login
\* with the right password a second later has been refused
C34_Witness ==
    /\ last.req.op = "login"
    /\ last.req.email = Some("pm1")
    /\ last.req.password = Some(RightPassword)
    /\ last.resp.code = 403
    /\ clock = 1
    /\ internal_users["pm1"].is_locked
    /\ internal_users["pm1"].failed_login_attempts = 5
    /\ internal_users["pm1"].locked_until = Some(1800)
    /\ SessionsOf(user_sessions, "pm1") = {}

\* C35: an account that is not locked has fewer than MAX_LOGIN_ATTEMPTS failed
\* attempts, before and after every step; a successful login leaves the count
\* at 0; a login for an account whose lock has run out unlocks it and counts
\* from 0 again: 0 with the right password, 1 with a wrong one.
C35_CounterBelowMaxUnlessLocked ==
    [][\A u \in AuthUsers :
        LET before == internal_users[u]
            after == internal_users'[u]
        IN  /\ ~before.is_locked => before.failed_login_attempts < 5
            /\ ~after.is_locked => after.failed_login_attempts < 5
            /\ (LoginFor(u) /\ last'.resp.kind = "ok")
               => after.failed_login_attempts = 0
            /\ ( /\ LoginFor(u)
                 /\ before.is_locked
                 /\ before.locked_until # None
                 /\ before.locked_until[1] <= clock )
               => /\ ~after.is_locked
                  /\ after.locked_until = None
                  /\ after.failed_login_attempts =
                        IF last'.req.password = Some(RightPassword) THEN 0 ELSE 1]_vars

\* both accounts were locked in the first second; half an hour later pm1 has
\* logged in with a wrong password and counts one failed attempt, pm2 is still
\* as the lock left it
C35_Witness ==
    /\ last.req.op = "login"
    /\ last.req.email = Some("pm1")
    /\ last.req.password = Some(WrongPassword)
    /\ last.resp.code = 401
    /\ clock = 1800
    /\ ~internal_users["pm1"].is_locked
    /\ internal_users["pm1"].failed_login_attempts = 1
    /\ internal_users["pm2"].is_locked
    /\ internal_users["pm2"].locked_until = Some(1800)

----------------------------------------------------------------------------
(* Sessions (SpecAuth) *)

\* the request served last went through get_current_user with bearer `token`
Presented(token) ==
    last.req.op = "get_current_user" /\ last.req.token = Some(token)

\* C36: a request is accepted by get_current_user only when an active row of
\* user_sessions holds its token; a request with a token that was logged out,
\* or whose user reset the password, with no login of that user since, is
\* refused with 401.
C36_RevokedTokenRefused ==
    \A token \in BearerTokens :
        Presented(token) =>
            /\ last.resp.kind = "ok"
                  => \E i \in DOMAIN user_sessions :
                         /\ user_sessions[i].token = token
                         /\ user_sessions[i].is_active
            /\ token \in revoked => last.resp.code = 401

=============================================================================
